---- MODULE Spec2Model ----
(***************************************************************************)
(* Channel adapters of the courier gateway: Zenvia (SMS), Zenvia WhatsApp, *)
(* FreshChat and Slack.  Each handler call is modelled from its Go source: *)
(* an inbound webhook handler maps a request to a response, a list of Msgs *)
(* and backend writes; an outbound SendMsg maps a Msg and the provider's   *)
(* answers to a MsgStatus, an error value, a log list and the requests it  *)
(* issued.                                                                 *)
(*                                                                         *)
(* Texts are run-length encoded: a text is a sequence of runs              *)
(* [ch |-> c, n |-> k] (k > 0, neighbouring runs of different characters), *)
(* so that texts longer than the adapters' part lengths stay small.        *)
(***************************************************************************)
EXTENDS Integers, Sequences, FiniteSets, TLC

VARIABLES
  pc,        \* "idle", "zvsend" (inside Zenvia's part loop) or "done"
  op,        \* the handler that is running or has returned
  inp,       \* its arguments: channel configuration, request or outbound Msg
  status,    \* the MsgStatus value: "nil" (no status), "E", "W", "S", "D", "F"
  err,       \* the error value returned: "none" or the kind of error
  logs,      \* the ChannelLogs added to the status, in order
  reqs,      \* the provider HTTP requests issued, in order
  extid,     \* the external id set on the status ("" when unset)
  msgs,      \* the Msgs built by an inbound handler, in order
  resp,      \* what was written to the webhook's ResponseWriter
  written,   \* what the Backend persisted, in order
  panicked,  \* the handler ended in a Go panic
  sigResult, \* what FreshChat's validateSignature did: "not called", "ok", "panic" or its error
  parts,     \* Zenvia SendMsg: the parts of the message
  idx,       \* Zenvia SendMsg: the part the loop is at
  reqBody,   \* FreshChat: what validateSignature did with the request's body
  events,    \* the events an inbound handler returned, in order
  joined,    \* utils.JoinNonEmpty: the string returned
  statusValues, \* SendMsg: the values its status was given, by NewMsgStatusForID then SetStatus
  workers    \* the Zenvia SendMsg calls of the workers that send concurrently

vars == <<pc, op, inp, status, err, logs, reqs, extid, msgs, resp, written, panicked, sigResult,
          parts, idx, reqBody, events, joined, statusValues, workers>>

----------------------------------------------------------------------------
(* Bounds of the model. *)

\* texts are up to MaxChunks full parts long, plus one character
MaxChunks == 2

\* an inbound Zenvia WhatsApp event holds up to MaxContents content parts
MaxContents == 3

\* an attachment URL counts this many characters in a text
UrlLen == 8

\* utils.JoinNonEmpty is called with up to MaxStrings strings
MaxStrings == 3

----------------------------------------------------------------------------
(* Run-length encoded texts. *)

RECURSIVE TextLen(_)
TextLen(t) == IF t = <<>> THEN 0 ELSE Head(t).n + TextLen(Tail(t))

\* canonical form: no empty run, no two neighbouring runs of one character
RECURSIVE Norm(_)
Norm(t) ==
  IF t = <<>> THEN <<>>
  ELSE IF Head(t).n = 0 THEN Norm(Tail(t))
  ELSE LET r == Norm(Tail(t))
       IN  IF r # <<>> /\ Head(r).ch = Head(t).ch
           THEN <<[ch |-> Head(t).ch, n |-> Head(t).n + Head(r).n]>> \o Tail(r)
           ELSE <<Head(t)>> \o r

Cat(s, t) == Norm(s \o t)

\* the first k characters of t
RECURSIVE Take(_, _)
Take(t, k) ==
  IF t = <<>> \/ k <= 0 THEN <<>>
  ELSE IF Head(t).n <= k THEN <<Head(t)>> \o Take(Tail(t), k - Head(t).n)
  ELSE <<[ch |-> Head(t).ch, n |-> k]>>

\* t without its first k characters
RECURSIVE Drop(_, _)
Drop(t, k) ==
  IF t = <<>> \/ k <= 0 THEN t
  ELSE IF Head(t).n <= k THEN Drop(Tail(t), k - Head(t).n)
  ELSE <<[ch |-> Head(t).ch, n |-> Head(t).n - k]>> \o Tail(t)

RECURSIVE CatAll(_)
CatAll(ps) == IF ps = <<>> THEN <<>> ELSE Cat(Head(ps), CatAll(Tail(ps)))

\* a text of q full parts of length max (characters "a", "b" in turn) and r more "z"
RECURSIVE Chunks(_, _)
Chunks(q, max) ==
  IF q = 0 THEN <<>>
  ELSE Chunks(q - 1, max) \o <<[ch |-> IF q % 2 = 1 THEN "a" ELSE "b", n |-> max]>>

MkText(q, r, max) == Norm(Chunks(q, max) \o <<[ch |-> "z", n |-> r]>>)

Texts(max) == {MkText(q, r, max) : q \in 0..MaxChunks, r \in 0..1}

----------------------------------------------------------------------------
(* handlers.SplitMsg and courier.GetTextAndAttachments *)

\* a text no longer than max is one part; a longer one is cut every max characters
RECURSIVE SplitMsg(_, _)
SplitMsg(text, max) ==
  IF TextLen(text) <= max THEN <<text>>
  ELSE <<Take(text, max)>> \o SplitMsg(Drop(text, max), max)

\* the text followed, for every attachment, by a newline and the attachment's URL
RECURSIVE GetTextAndAttachments(_, _)
GetTextAndAttachments(text, atts) ==
  IF atts = <<>> THEN text
  ELSE GetTextAndAttachments(
         Cat(text, <<[ch |-> "\n", n |-> 1], [ch |-> Head(atts), n |-> UrlLen]>>),
         Tail(atts))

----------------------------------------------------------------------------
(* The state between two handler calls. *)

\* A request body is a stream: its bytes (a sequence) and how many of them have been
\* read.  bytes.NewBuffer gives a stream over a buffer, ioutil.ReadAll the bytes that
\* are left; a stream that was read to its end yields nothing more.
NewBuffer(buf) == [data |-> buf, pos |-> 0]

ReadAll(s) == SubSeq(s.data, s.pos + 1, Len(s.data))

Drained(s) == [s EXCEPT !.pos = Len(s.data)]

\* the body as a handler finds it when validateSignature did not touch it
NoBodyRead == [reads |-> 0, token |-> <<>>, after |-> <<>>]

\* the workers that call SendMsg concurrently, and a worker that has no call yet
Workers == {1, 2}

IdleWorker ==
  [pc |-> "idle", msg |-> [text |-> <<>>, attachments |-> <<>>], parts |-> <<>>, idx |-> 0,
   status |-> "nil", err |-> "none", logs |-> <<>>, reqs |-> <<>>, answers |-> <<>>]

Init ==
  /\ pc = "idle"
  /\ op = "none"
  /\ inp = [none |-> TRUE]
  /\ status = "nil"
  /\ err = "none"
  /\ logs = <<>>
  /\ reqs = <<>>
  /\ extid = ""
  /\ msgs = <<>>
  /\ resp = "none"
  /\ written = <<>>
  /\ panicked = FALSE
  /\ sigResult = "not called"
  /\ parts = <<>>
  /\ idx = 0
  /\ reqBody = NoBodyRead
  /\ events = <<>>
  /\ joined = <<>>
  /\ statusValues = <<>>
  /\ workers = [w \in Workers |-> IdleWorker]

\* a behaviour is one handler call: it begins in the idle state
Idle == pc = "idle"

Enter(name, args) ==
  /\ op' = name
  /\ inp' = args
  /\ sigResult' = "not called"
  /\ reqBody' = NoBodyRead
  /\ UNCHANGED <<joined, workers>>

\* the handler op has returned or panicked
Done(name) == pc = "done" /\ op = name

\* the fields an inbound handler leaves as they are
NoSend == UNCHANGED <<status, logs, reqs, extid, parts, idx, statusValues>>

\* handlers.WriteAndLogRequestError: an error response, nothing returned
RequestError(kind) ==
  /\ resp' = "error" /\ err' = kind /\ msgs' = <<>> /\ written' = <<>> /\ panicked' = FALSE
  /\ events' = <<>>

\* handlers.WriteAndLogRequestIgnored: a success response saying the request was ignored
RequestIgnored ==
  /\ resp' = "ignored" /\ err' = "none" /\ msgs' = <<>> /\ written' = <<>> /\ panicked' = FALSE
  /\ events' = <<>>

\* a Go panic: the handler returns nothing and writes nothing
Panic ==
  /\ resp' = "none" /\ err' = "none" /\ msgs' = <<>> /\ written' = <<>> /\ panicked' = TRUE
  /\ events' = <<>>

\* handlers.WriteMsgsAndResponse: the Msgs are written to the Backend in order; the
\* success response is written after the last write, and the first failed write
\* (failAt, 0 for none) ends the call with the Backend's error, no response and no
\* event
WriteMsgsAndResponse(ms, failAt) ==
  /\ msgs' = ms
  /\ panicked' = FALSE
  /\ IF failAt \in 1..Len(ms)
     THEN /\ written' = SubSeq(ms, 1, failAt - 1) /\ resp' = "none" /\ err' = "backend"
          /\ events' = <<>>
     ELSE /\ written' = ms /\ resp' = "ok" /\ err' = "none"
          /\ events' = ms

----------------------------------------------------------------------------
(* Zenvia: src/handlers/zenvia/zenvia.go *)

ZvMaxMsgLength == 150

ZvStatusCodes == {"00", "01", "02", "03", "04", "05", "06", "07", "08", "09", "10"}

\* statusMapping, found: the code is a key of the table
ZvStatusFound(code) == code \in ZvStatusCodes

ZvStatusMapping(code) ==
  CASE code \in {"00", "01", "02"} -> "S"
    [] code = "03" -> "D"
    [] code \in {"04", "05", "06", "07", "08", "09", "10"} -> "E"
    [] OTHER -> ""

\* the channel configurations and outbound messages tried
ZvConfigs == [username : {"", "user"}, password : {"", "pw"}]

ZvMsgs == [text : Texts(ZvMaxMsgLength), attachments : {<<>>, <<"u1">>}]

\* what utils.MakeHTTPRequest gives back for one part: a transport error, or a
\* response whose body holds sendSmsResponse.statusCode = code ("" when absent)
ZvAnswers == [terr : {TRUE}, code : {""}] \cup [terr : {FALSE}, code : {"00", "03", "04", "99", ""}]

\* the credential checks without the check of the password
ZvCredsOK_UsernameOnly(cfg) == cfg.username # ""

\* lines 183-191: the credential checks
ZvCredsOK(cfg) == cfg.username # "" /\ cfg.password # ""

\* the check of the answer without the comparison with errored
ZvPartOK_FoundOnly(ans) == ~ans.terr /\ ZvStatusFound(ans.code)

\* lines 227-231: the part was accepted by Zenvia
ZvPartOK(ans) == ~ans.terr /\ ZvStatusFound(ans.code) /\ ZvStatusMapping(ans.code) # "E"

\* SendMsg up to the part loop (lines 182-194)
ZvSendMsg ==
  /\ Idle
  /\ \E cfg \in ZvConfigs, m \in ZvMsgs :
    /\ Enter("ZvSendMsg", [cfg |-> cfg, msg |-> m])
    /\ logs' = <<>> /\ reqs' = <<>> /\ extid' = "" /\ msgs' = <<>> /\ events' = <<>>
    /\ resp' = "none" /\ written' = <<>> /\ panicked' = FALSE
    /\ IF ~ZvCredsOK(cfg)
       THEN /\ status' = "nil" /\ err' = "config" /\ statusValues' = <<>>
            /\ parts' = <<>> /\ idx' = 0 /\ pc' = "done"
       ELSE /\ status' = "E" /\ err' = "none" /\ statusValues' = <<"E">>
            /\ parts' = SplitMsg(GetTextAndAttachments(m.text, m.attachments), ZvMaxMsgLength)
            /\ idx' = 1
            /\ pc' = IF parts' = <<>> THEN "done" ELSE "zvsend"

\* a turn of the loop that goes on to the next part when its part fails
ZvSendPart_ContinueAfterFailure ==
  \E ans \in ZvAnswers :
    /\ pc = "zvsend"
    /\ idx <= Len(parts)
    /\ reqs' = Append(reqs, [to |-> "zenvia", msg |-> parts[idx]])
    /\ logs' = Append(logs, [part |-> idx, failed |-> ans.terr, code |-> ans.code])
    /\ idx' = idx + 1
    /\ pc' = IF idx = Len(parts) THEN "done" ELSE "zvsend"
    /\ IF ans.terr
       THEN /\ err' = "transport" /\ UNCHANGED <<status, statusValues>>
       ELSE IF ~ZvPartOK(ans)
       THEN /\ err' = "provider" /\ UNCHANGED <<status, statusValues>>
       ELSE /\ status' = "W" /\ statusValues' = Append(statusValues, "W")
            /\ UNCHANGED err
    /\ UNCHANGED <<op, inp, extid, msgs, resp, written, panicked, sigResult, parts, reqBody, events,
                   joined, workers>>

\* a turn of the loop that puts the status back to errored when its part fails
ZvSendPart_ResetOnFailure ==
  \E ans \in ZvAnswers :
    /\ pc = "zvsend"
    /\ idx <= Len(parts)
    /\ reqs' = Append(reqs, [to |-> "zenvia", msg |-> parts[idx]])
    /\ logs' = Append(logs, [part |-> idx, failed |-> ans.terr, code |-> ans.code])
    /\ IF ans.terr \/ ~ZvPartOK(ans)
       THEN /\ err' = IF ans.terr THEN "transport" ELSE "provider"
            /\ pc' = "done"
            /\ status' = "E" /\ statusValues' = Append(statusValues, "E")
            /\ UNCHANGED idx
       ELSE /\ status' = "W" /\ statusValues' = Append(statusValues, "W")
            /\ idx' = idx + 1
            /\ pc' = IF idx = Len(parts) THEN "done" ELSE "zvsend"
            /\ UNCHANGED err
    /\ UNCHANGED <<op, inp, extid, msgs, resp, written, panicked, sigResult, parts, reqBody, events,
                   joined, workers>>

\* one turn of the part loop (lines 195-234) and, after the last part, line 235
ZvSendPart ==
  \E ans \in ZvAnswers :
    /\ pc = "zvsend"
    /\ idx <= Len(parts)
    /\ reqs' = Append(reqs, [to |-> "zenvia", msg |-> parts[idx]])
    /\ logs' = Append(logs, [part |-> idx, failed |-> ans.terr, code |-> ans.code])
    /\ IF ans.terr
       THEN /\ err' = "transport" /\ pc' = "done" /\ UNCHANGED <<status, idx, statusValues>>
       ELSE IF ~ZvPartOK(ans)
       THEN /\ err' = "provider" /\ pc' = "done" /\ UNCHANGED <<status, idx, statusValues>>
       ELSE /\ status' = "W" /\ statusValues' = Append(statusValues, "W")
            /\ idx' = idx + 1
            /\ pc' = IF idx = Len(parts) THEN "done" ELSE "zvsend"
            /\ UNCHANGED err
    /\ UNCHANGED <<op, inp, extid, msgs, resp, written, panicked, sigResult, parts, reqBody, events,
                   joined, workers>>

\* handlers.WriteMsgStatusAndResponse and the tail of Zenvia's StatusMessage: the status
\* is written to the Backend, and the success response only after the write succeeded
WriteStatusAndResponse(id, value, writeFails) ==
  /\ status' = value
  /\ extid' = id
  /\ msgs' = <<>>
  /\ panicked' = FALSE
  /\ IF writeFails
     THEN /\ written' = <<>> /\ resp' = "none" /\ err' = "backend"
          /\ events' = <<>>
     ELSE /\ written' = <<[external_id |-> id, status |-> value]>> /\ resp' = "ok" /\ err' = "none"
          /\ events' = <<[external_id |-> id, status |-> value]>>

\* the status payloads tried: valid is the outcome of handlers.DecodeAndValidateJSON,
\* which requires status and id to be present
ZvStatusRequests ==
  [valid : {TRUE}, status : ZvStatusCodes \cup {"11", "99", "0", "3", "W"}, id : {"hs1", "hs2"}]
    \cup [valid : {FALSE}, status : {"", "03"}, id : {""}]

\* the status of a code, with an unknown code taken as sent
ZvMsgStatus_DefaultSent(code) == IF ZvStatusFound(code) THEN ZvStatusMapping(code) ELSE "S"

\* lines 165-168: the status of a code, errored for a code the table does not hold
ZvMsgStatus(code) == IF ZvStatusFound(code) THEN ZvStatusMapping(code) ELSE "E"

\* the id the status is created for (line 171)
ZvStatusID(r) == r.id

\* StatusMessage (lines 157-179)
ZvStatusMessage ==
  /\ Idle
  /\ \E r \in ZvStatusRequests, writeFails \in BOOLEAN :
       /\ Enter("ZvStatusMessage", [request |-> r, write_fails |-> writeFails])
       /\ pc' = "done"
       /\ UNCHANGED <<logs, reqs, parts, idx, statusValues>>
       /\ IF ~r.valid
          THEN RequestError("decode") /\ UNCHANGED <<status, extid>>
          ELSE WriteStatusAndResponse(ZvStatusID(r), ZvMsgStatus(r.status), writeFails)

\* the date check with the milliseconds optional
ZvTimeParses_MillisOptional(date) ==
  date \in {"2017-05-03T06:04:45.345-03:00", "2014-08-26T12:27:08.488+00:00",
            "2017-05-03T06:04:45-03:00"}

\* time.Parse("2006-01-02T15:04:05.000-07:00", date) returns no error: three
\* digits of milliseconds and a numeric zone offset
ZvTimeParses(date) ==
  date \in {"2017-05-03T06:04:45.345-03:00", "2014-08-26T12:27:08.488+00:00"}

\* date.UTC() on the dates that parse
ZvUTC(date) ==
  CASE date = "2017-05-03T06:04:45.345-03:00" -> "2017-05-03T09:04:45.345Z"
    [] date = "2014-08-26T12:27:08.488+00:00" -> "2014-08-26T12:27:08.488Z"
    [] OTHER -> "0001-01-01T00:00:00Z"

\* the message payloads tried: valid is the outcome of handlers.DecodeAndValidateJSON,
\* which requires id, mobile, body, received and correlatedMessageSmsId
ZvMessageRequests ==
  [valid : {TRUE}, id : {"206"}, from : {"5551"}, text : {"hello"}, external_id : {"hs7"},
   date : {"2017-05-03T06:04:45.345-03:00", "2014-08-26T12:27:08.488+00:00",
           "2017-05-03T06:04:45Z", "2017-05-03T06:04:45-03:00", "26/08/2014 12:27", "yesterday"}]
    \cup [valid : {FALSE}, id : {"206"}, from : {"5551"}, text : {""}, external_id : {"hs7"},
          date : {"", "2017-05-03T06:04:45.345-03:00"}]

\* lines 142-145: the Msg of a payload
ZvIncomingMsg(r) ==
  [urn |-> [scheme |-> "tel", path |-> r.from],
   text |-> r.text,
   attachments |-> <<>>,
   external_id |-> r.external_id, received_on |-> ZvUTC(r.date), contact_name |-> ""]

\* the tail of ReceiveMessage with the acknowledgment written before the Backend has
\* answered
ZvWriteMsg_AckFirst(msg, writeFails) ==
  /\ msgs' = <<msg>>
  /\ panicked' = FALSE
  /\ resp' = "ok"
  /\ IF writeFails
     THEN /\ written' = <<>> /\ err' = "backend" /\ events' = <<>>
     ELSE /\ written' = <<msg>> /\ err' = "none" /\ events' = <<msg>>

\* lines 148-153: the Msg is written to the Backend; a failed write ends the call
\* with the Backend's error, and the success response follows a write that succeeded
ZvWriteMsg(msg, writeFails) ==
  /\ msgs' = <<msg>>
  /\ panicked' = FALSE
  /\ IF writeFails
     THEN /\ written' = <<>> /\ resp' = "none" /\ err' = "backend" /\ events' = <<>>
     ELSE /\ written' = <<msg>> /\ resp' = "ok" /\ err' = "none" /\ events' = <<msg>>

\* ReceiveMessage (lines 126-154)
ZvReceiveMessage ==
  /\ Idle
  /\ \E r \in ZvMessageRequests, writeFails \in BOOLEAN :
       /\ Enter("ZvReceiveMessage", [request |-> r, write_fails |-> writeFails])
       /\ pc' = "done"
       /\ NoSend
       /\ IF ~r.valid THEN RequestError("decode")
          ELSE IF ~ZvTimeParses(r.date) THEN RequestError("invalid date format")
          ELSE ZvWriteMsg(ZvIncomingMsg(r), writeFails)

----------------------------------------------------------------------------
(* Zenvia WhatsApp: src/unnamed/part_000 *)

\* strings.ToUpper on the texts the model uses
ToUpper(str) ==
  CASE str \in {"message", "Message"} -> "MESSAGE"
    [] str \in {"message_status"} -> "MESSAGE_STATUS"
    [] str \in {"in", "In"} -> "IN"
    [] str = "out" -> "OUT"
    [] str = "sent" -> "SENT"
    [] str = "Read" -> "READ"
    [] str = "delivered" -> "DELIVERED"
    [] str = "not_delivered" -> "NOT_DELIVERED"
    [] str = "rejected" -> "REJECTED"
    [] str = "deleted" -> "DELETED"
    [] OTHER -> str

ZvwStatusCodes == {"REJECTED", "NOT_DELIVERED", "SENT", "DELIVERED", "READ"}

\* statusMapping, found: the code is a key of the table
ZvwStatusFound(code) == code \in ZvwStatusCodes

ZvwStatusMapping(code) ==
  CASE code \in {"REJECTED", "NOT_DELIVERED"} -> "F"
    [] code = "SENT" -> "S"
    [] code \in {"DELIVERED", "READ"} -> "D"
    [] OTHER -> ""

\* the status of a code, looked up as it was received
ZvwMsgStatus_NoUpper(code) ==
  IF ZvwStatusFound(code) THEN ZvwStatusMapping(code) ELSE "E"

\* lines 170-173: the status of a code, looked up in upper case
ZvwMsgStatus(code) ==
  IF ZvwStatusFound(ToUpper(code)) THEN ZvwStatusMapping(ToUpper(code)) ELSE "E"

\* the id the status is created for (line 176)
ZvwStatusID(r) == r.messageId

ZvwStatusPayloads ==
  [valid : {TRUE}, type : {"MESSAGE_STATUS"}, messageId : {"", "m1"},
   code : ZvwStatusCodes \cup {"sent", "Read", "delivered", "not_delivered", "rejected",
                               "DELETED", "deleted", "", "WIRED", "03"}]
    \cup [valid : {TRUE}, type : {"message_status", "MESSAGE"}, messageId : {"m1"}, code : {"SENT"}]
    \cup [valid : {FALSE}, type : {""}, messageId : {"m1"}, code : {"SENT"}]

\* receiveStatus (lines 158-179)
ZvwReceiveStatus ==
  /\ Idle
  /\ \E r \in ZvwStatusPayloads, writeFails \in BOOLEAN :
       /\ Enter("ZvwReceiveStatus", [request |-> r, write_fails |-> writeFails])
       /\ pc' = "done"
       /\ UNCHANGED <<logs, reqs, parts, idx, statusValues>>
       /\ IF ~r.valid
          THEN RequestError("decode") /\ UNCHANGED <<status, extid>>
          ELSE IF ToUpper(r.type) # "MESSAGE_STATUS"
          THEN RequestError("unsupported event type") /\ UNCHANGED <<status, extid>>
          ELSE WriteStatusAndResponse(ZvwStatusID(r), ZvwMsgStatus(r.code), writeFails)

\* time.Parse("2006-01-02T15:04:05Z", ts) returns no error; when parsing, Go also
\* takes a fraction after the seconds that the layout does not name
ZvwTimeParses(ts) ==
  ts \in {"2017-05-03T06:04:45Z", "2020-01-01T00:00:00Z", "2020-01-01T00:00:00.5Z"}

\* urns.NewWhatsAppURN(from) returns no error: the number is made of digits
ZvwWhatsAppURNOK(from) == from \in {"5511", "5522"}

\* fmt.Sprintf("geo:%f,%f", latitude, longitude) on the coordinates the model uses
GeoURL(lat, lon) ==
  CASE <<lat, lon>> = <<0, 0>> -> "geo:0.000000,0.000000"
    [] <<lat, lon>> = <<1, 2>> -> "geo:1.000000,2.000000"
    [] OTHER -> "geo:?"

\* the content parts tried: texts, files with and without a URL, locations, and a
\* part of a type the handler does not know
ZvwMoContents ==
  [type : {"text"}, text : {"hi", ""}, fileUrl : {""}, latitude : {0}, longitude : {0}]
    \cup [type : {"file"}, text : {""}, fileUrl : {"f1", ""}, latitude : {0}, longitude : {0}]
    \cup [type : {"location"}, text : {""}, fileUrl : {""}, latitude : {1}, longitude : {2}]
    \cup [type : {"location"}, text : {""}, fileUrl : {""}, latitude : {0}, longitude : {0}]
    \cup [type : {"audio"}, text : {"x"}, fileUrl : {"f2"}, latitude : {0}, longitude : {0}]

ZvwContentLists == UNION {[1..n -> ZvwMoContents] : n \in 0..MaxContents}

\* the events tried: every content list on an event that is accepted, and the other
\* fields varied on one content list
ZvwMoPayloads ==
  [valid : {TRUE}, type : {"MESSAGE", "message"}, timestamp : {"2017-05-03T06:04:45Z"},
   direction : {"IN", "in"}, from : {"5511"}, id : {"e1"}, name : {"", "Bob"},
   contents : ZvwContentLists]
    \cup [valid : BOOLEAN, type : {"MESSAGE", "MESSAGE_STATUS"},
          timestamp : {"2020-01-01T00:00:00Z", "2020-01-01T00:00:00.5Z", "2017-05-03 06:04",
                       "2020-01-01T00:00:00-03:00"},
          direction : {"IN", "OUT", "out"}, from : {"5522", "abc"}, id : {"e2"}, name : {"Ann"},
          contents : {<<[type |-> "text", text |-> "hi", fileUrl |-> "", latitude |-> 0, longitude |-> 0]>>}]

\* lines 113-125: the text and the media URL of one content part
ZvwText(content) == IF content.type = "text" THEN content.text ELSE ""

\* the media URL of a part, with a location taken as a file
ZvwMediaURL_LocationAsFile(content) ==
  IF content.type = "text" THEN ""
  ELSE IF content.type \in {"location", "file"} THEN content.fileUrl
  ELSE ""

ZvwMediaURL(content) ==
  IF content.type = "text" THEN ""
  ELSE IF content.type = "location" THEN GeoURL(content.latitude, content.longitude)
  ELSE IF content.type = "file" THEN content.fileUrl
  ELSE ""

\* lines 127-132: the Msg of one content part
ZvwIncomingMsg(p, content) ==
  [urn |-> [scheme |-> "whatsapp", path |-> p.from],
   text |-> ZvwText(content),
   attachments |-> IF ZvwMediaURL(content) # "" THEN <<ZvwMediaURL(content)>> ELSE <<>>,
   external_id |-> p.id, received_on |-> p.timestamp, contact_name |-> p.name]

\* the loop ended by the first part of a type it does not know
RECURSIVE ZvwMsgsUntilUnknown(_, _)
ZvwMsgsUntilUnknown(p, cs) ==
  IF cs = <<>> \/ Head(cs).type \notin {"text", "location", "file"} THEN <<>>
  ELSE <<ZvwIncomingMsg(p, Head(cs))>> \o ZvwMsgsUntilUnknown(p, Tail(cs))

ZvwIncomingMsgs_StopAtUnknown(p) == ZvwMsgsUntilUnknown(p, p.contents)

\* lines 109-133: one Msg for every content part, in the order of the parts
ZvwIncomingMsgs(p) == [i \in 1..Len(p.contents) |-> ZvwIncomingMsg(p, p.contents[i])]

\* receiveMessage with an event of another type acknowledged as ignored
ZvwRoute_TypeIgnored(p) ==
  IF ~p.valid THEN "decode"
  ELSE IF ToUpper(p.type) # "MESSAGE" THEN "ignored"
  ELSE IF ~ZvwTimeParses(p.timestamp) THEN "invalid date format"
  ELSE IF ToUpper(p.direction) # "IN" THEN "ignored"
  ELSE IF ~ZvwWhatsAppURNOK(p.from) THEN "invalid urn"
  ELSE "msgs"

\* receiveMessage with the direction looked at before the timestamp
ZvwRoute_DirectionFirst(p) ==
  IF ~p.valid THEN "decode"
  ELSE IF ToUpper(p.type) # "MESSAGE" THEN "unsupported event type"
  ELSE IF ToUpper(p.direction) # "IN" THEN "ignored"
  ELSE IF ~ZvwTimeParses(p.timestamp) THEN "invalid date format"
  ELSE IF ~ZvwWhatsAppURNOK(p.from) THEN "invalid urn"
  ELSE "msgs"

\* lines 81-105: where receiveMessage goes: the error it rejects the request with,
\* "ignored", or "msgs" when the Msgs are built
ZvwRoute(p) ==
  IF ~p.valid THEN "decode"
  ELSE IF ToUpper(p.type) # "MESSAGE" THEN "unsupported event type"
  ELSE IF ~ZvwTimeParses(p.timestamp) THEN "invalid date format"
  ELSE IF ToUpper(p.direction) # "IN" THEN "ignored"
  ELSE IF ~ZvwWhatsAppURNOK(p.from) THEN "invalid urn"
  ELSE "msgs"

\* receiveMessage (lines 78-137)
ZvwReceiveMessage ==
  /\ Idle
  /\ \E p \in ZvwMoPayloads :
       \E failAt \in 0..Len(p.contents) :
         /\ Enter("ZvwReceiveMessage", [request |-> p, fail_at |-> failAt])
         /\ pc' = "done"
         /\ NoSend
         /\ CASE ZvwRoute(p) = "msgs" -> WriteMsgsAndResponse(ZvwIncomingMsgs(p), failAt)
              [] ZvwRoute(p) = "ignored" -> RequestIgnored
              [] OTHER -> RequestError(ZvwRoute(p))

ZvwMaxMsgLength == 1152

\* handlers.SplitMsgByChannel: the text cut by the channel's maximum length
SplitMsgByChannel(text, max) == SplitMsg(text, max)

ZvwConfigs == [api_key : {"", "key"}]

ZvwMsgs == [text : Texts(ZvwMaxMsgLength), attachments : {<<>>, <<"u1">>}]

\* what utils.MakeHTTPRequest gives back: a transport error or a response whose
\* body has no field id, a field id that is no string, or a string id
ZvwAnswers ==
  [terr : BOOLEAN, idkind : {"absent", "number"}, id : {""}]
    \cup [terr : BOOLEAN, idkind : {"string"}, id : {"", "x1"}]

\* lines 199-202: the credential check
ZvwCredsOK(cfg) == cfg.api_key # ""

\* the contents of the request with the text parts ahead of the attachments
ZvwContents_TextFirst(m) ==
  (LET msgParts == IF m.text # <<>> THEN SplitMsgByChannel(m.text, ZvwMaxMsgLength) ELSE <<>>
   IN  [i \in 1..Len(msgParts) |-> [type |-> "text", fileUrl |-> "", text |-> msgParts[i]]])
    \o [i \in 1..Len(m.attachments) |-> [type |-> "file", fileUrl |-> m.attachments[i], text |-> <<>>]]

\* the contents of the request with the text as one part, whatever its length
ZvwContents_TextUnsplit(m) ==
  [i \in 1..Len(m.attachments) |-> [type |-> "file", fileUrl |-> m.attachments[i], text |-> <<>>]]
    \o (IF m.text # <<>> THEN <<[type |-> "text", fileUrl |-> "", text |-> m.text]>> ELSE <<>>)

\* lines 212-232: the contents of the one request, attachments first
ZvwContents(m) ==
  [i \in 1..Len(m.attachments) |-> [type |-> "file", fileUrl |-> m.attachments[i], text |-> <<>>]]
    \o (LET msgParts == IF m.text # <<>> THEN SplitMsgByChannel(m.text, ZvwMaxMsgLength) ELSE <<>>
        IN  [i \in 1..Len(msgParts) |-> [type |-> "text", fileUrl |-> "", text |-> msgParts[i]]])

\* the check of the id with any field id taken, string or not
ZvwHasID_AnyField(ans) == ans.idkind # "absent"

\* line 258: jsonparser.GetString(rr.Body, "id") succeeded
ZvwHasID(ans) == ans.idkind = "string"

\* SendMsg (lines 198-268)
ZvwSendMsg ==
  /\ Idle
  /\ \E cfg \in ZvwConfigs, m \in ZvwMsgs, ans \in ZvwAnswers :
    /\ Enter("ZvwSendMsg", [cfg |-> cfg, msg |-> m, answer |-> ans])
    /\ msgs' = <<>> /\ resp' = "none" /\ written' = <<>> /\ panicked' = FALSE /\ events' = <<>>
    /\ parts' = <<>> /\ idx' = 0 /\ pc' = "done"
    /\ IF ~ZvwCredsOK(cfg)
       THEN /\ status' = "nil" /\ err' = "config" /\ statusValues' = <<>>
            /\ logs' = <<>> /\ reqs' = <<>> /\ extid' = ""
       ELSE /\ reqs' = <<[to |-> "zenvia-whatsapp", contents |-> ZvwContents(m)]>>
            /\ logs' = <<[part |-> 1, failed |-> ans.terr, idkind |-> ans.idkind]>>
            /\ IF ans.terr \/ ~ZvwHasID(ans)
               THEN /\ status' = "E" /\ extid' = "" /\ err' = "none"
                    /\ statusValues' = <<"E">>
               ELSE /\ status' = "W" /\ extid' = ans.id /\ err' = "none"
                    /\ statusValues' = <<"E", "W">>

----------------------------------------------------------------------------
(* FreshChat: src/freshchat/freshchat.go *)

\* strings.Split(s, sep) for a one-character separator: s is a sequence of characters
RECURSIVE SplitAcc(_, _, _)
SplitAcc(s, sep, cur) ==
  IF s = <<>> THEN <<cur>>
  ELSE IF Head(s) = sep THEN <<cur>> \o SplitAcc(Tail(s), sep, <<>>)
  ELSE SplitAcc(Tail(s), sep, Append(cur, Head(s)))

StringsSplit(s, sep) == SplitAcc(s, sep, <<>>)

FcConfigs == [username : {"", "agent"}, auth_token : {"", "tok"}]

\* URN paths of the destination: channel/user, no separator, two separators
FcPaths == {<<"c", "/", "u">>, <<"c">>, <<"c", "/", "u", "/", "v">>, <<"/", "u">>, <<>>}

FcMsgs == [path : FcPaths, text : {<<>>, <<[ch |-> "a", n |-> 2]>>},
           attachments : {<<>>, <<"u1">>, <<"u1", "u2">>}]

\* what utils.MakeHTTPRequest gives back
FcAnswers == [terr : BOOLEAN]

\* lines 111-119: the credential checks
FcCredsOK(cfg) == cfg.username # "" /\ cfg.auth_token # ""

\* lines 142-154: the message parts of the payload, the text then the first attachment
FcMessageParts(m) ==
  (IF TextLen(m.text) > 0 THEN <<[text |-> m.text]>> ELSE <<>>)
    \o (IF Len(m.attachments) > 0 THEN <<[image |-> m.attachments[1]]>> ELSE <<>>)

\* SendMsg (lines 109-181)
FcSendMsg ==
  /\ Idle
  /\ \E cfg \in FcConfigs, m \in FcMsgs, ans \in FcAnswers :
    /\ Enter("FcSendMsg", [cfg |-> cfg, msg |-> m, answer |-> ans])
    /\ msgs' = <<>> /\ resp' = "none" /\ written' = <<>> /\ events' = <<>>
    /\ parts' = <<>> /\ idx' = 0 /\ pc' = "done" /\ extid' = ""
    /\ IF ~FcCredsOK(cfg)
       THEN /\ status' = "nil" /\ err' = "config" /\ statusValues' = <<>>
            /\ logs' = <<>> /\ reqs' = <<>> /\ panicked' = FALSE
       ELSE LET user == StringsSplit(m.path, "/")
            IN  IF Len(user) < 2
                THEN \* line 136: user[1] is out of range
                     /\ status' = "E" /\ err' = "none" /\ statusValues' = <<"E">>
                     /\ logs' = <<>> /\ reqs' = <<>> /\ panicked' = TRUE
                ELSE /\ reqs' = <<[to |-> "freshchat", channel_id |-> user[1], user_id |-> user[2],
                                   actor_id |-> cfg.username, message_parts |-> FcMessageParts(m)]>>
                     /\ logs' = <<[part |-> 1, failed |-> ans.terr]>>
                     /\ panicked' = FALSE
                     /\ IF ans.terr
                        THEN status' = "E" /\ err' = "transport" /\ statusValues' = <<"E">>
                        ELSE status' = "W" /\ err' = "none" /\ statusValues' = <<"E", "W">>

\* The webhook's signature.  A digest stands for the bytes it was computed from and a
\* signature for its signer and the digest signed.  A header value is absent (the
\* empty text), a text that is not base64, or the base64 text of a signature.
Sha256(body) == [sha256 |-> body]

SignPKCS1v15(signer, digest) == [signer |-> signer, digest |-> digest]

Base64(sig) == [kind |-> "b64", sig |-> sig]

\* base64.StdEncoding.DecodeString: [ok, value]
Base64Decode(h) == [ok |-> h.kind = "b64", value |-> h.sig]

\* the public key in the channel configuration: absent, text that is not PEM, a PEM
\* block that is no public key, an elliptic-curve key, the RSA keys of two signers
FcKeys == {"", "notpem", "pem:garbage", "pem:ec", "pem:rsa:s1", "pem:rsa:s2"}

\* pem.Decode finds a block
PemDecodes(key) == key \in {"pem:garbage", "pem:ec", "pem:rsa:s1", "pem:rsa:s2"}

\* x509.ParsePKIXPublicKey returns no error
ParsesAsPublicKey(key) == key \in {"pem:ec", "pem:rsa:s1", "pem:rsa:s2"}

IsRSAKey(key) == key \in {"pem:rsa:s1", "pem:rsa:s2"}

\* rsa.VerifyPKCS1v15 returns no error
VerifyPKCS1v15(key, digest, sig) ==
  /\ key = IF sig.signer = "s1" THEN "pem:rsa:s1" ELSE "pem:rsa:s2"
  /\ sig.digest = digest

\* the webhook bodies: one that is not JSON, an event without a message object, and
\* events with a message
\* a message part: Text and Image are pointers, has_text and has_image say they are
\* not nil; text is the Content and image the URL, empty when absent from the JSON
FcTextPart(content) == [has_text |-> TRUE, text |-> content, has_image |-> FALSE, image |-> ""]

FcImagePart(url) == [has_text |-> FALSE, text |-> "", has_image |-> TRUE, image |-> url]

FcBothPart(content, url) == [has_text |-> TRUE, text |-> content, has_image |-> TRUE, image |-> url]

FcPartLists ==
  { <<>>,
    <<FcTextPart("hi")>>,
    <<FcImagePart("img1")>>,
    <<FcTextPart("hi"), FcImagePart("img1")>>,
    <<FcTextPart("hi"), FcBothPart("yo", "img1"), FcImagePart("img2")>>,
    <<FcTextPart("hi"), FcTextPart("")>>,
    <<FcImagePart("img1"), FcImagePart("")>> }

FcMessages ==
  [actor_id : {"", "u", "u/v"}, actor_type : {"user", "agent"}, channel_id : {"c", ""},
   message_parts : FcPartLists, created_time : {"t1"}]

\* the zero Message, standing in the model for the fields of a nil pointer
FcNoMessage ==
  [actor_id |-> "", actor_type |-> "", channel_id |-> "", message_parts |-> <<>>, created_time |-> ""]

FcBodies ==
  [json : BOOLEAN, has_message : {FALSE}, message : {FcNoMessage}]
    \cup [json : {TRUE}, has_message : {TRUE}, message : FcMessages]

\* two bodies that differ from each other, to sign in place of the request's own
FcOtherBodies == [json : BOOLEAN, has_message : {FALSE}, message : {FcNoMessage}]

\* the bytes of a body on the wire
FcBytes(body) == <<body>>

FcSignatures(body) ==
  {SignPKCS1v15(k, Sha256(FcBytes(b))) : k \in {"s1", "s2"}, b \in {body} \cup FcOtherBodies}

FcHeaders(body) ==
  [kind : {"", "notb64"}, sig : {SignPKCS1v15("", Sha256(FcBytes(body)))}]
    \cup {Base64(sg) : sg \in FcSignatures(body)}

\* validateSignature without line 200: the request keeps the stream that was read
FcBufferBody_NoReplay(validateSignatures, header, rbody) ==
  IF ~validateSignatures \/ header.kind = ""
  THEN [reads |-> 0, token |-> <<>>, after |-> ReadAll(rbody)]
  ELSE LET buf == ReadAll(rbody)
           rdr1 == NewBuffer(buf)
       IN  [reads |-> 1, token |-> ReadAll(rdr1), after |-> ReadAll(Drained(rbody))]

\* lines 184-200: with validation on and the header present the body is read to its
\* end into buf, the token to hash is read from one buffer over buf and the request
\* gets another buffer over buf as its body; otherwise the body is left as it is.
\* reads: the reads of the request's stream, token: the bytes to hash, after: the
\* bytes the request's body yields once validateSignature is over
FcBufferBody(validateSignatures, header, rbody) ==
  IF ~validateSignatures \/ header.kind = ""
  THEN [reads |-> 0, token |-> <<>>, after |-> ReadAll(rbody)]
  ELSE LET buf == ReadAll(rbody)
           rdr1 == NewBuffer(buf)
           rdr2 == NewBuffer(buf)
       IN  [reads |-> 1, token |-> ReadAll(rdr1), after |-> ReadAll(rdr2)]

\* validateSignature with the construction-time flag left out of account
ValidateSignature_FlagIgnored(validateSignatures, key, header, token) ==
  IF header.kind = "" THEN "missing request signature"
  ELSE IF ~PemDecodes(key) THEN "panic"
  ELSE IF ~ParsesAsPublicKey(key) THEN "panic"
  ELSE IF ~Base64Decode(header).ok THEN "unable to decode base64 signature"
  ELSE IF ~IsRSAKey(key) THEN "panic"
  ELSE IF ~VerifyPKCS1v15(key, Sha256(token), Base64Decode(header).value) THEN "unable to verify signature"
  ELSE "ok"

\* validateSignature (lines 183-222): "ok", "panic" or the error returned; token is
\* the bytes that are hashed
ValidateSignature(validateSignatures, key, header, token) ==
  IF ~validateSignatures THEN "ok"
  ELSE IF header.kind = "" THEN "missing request signature"
  ELSE IF ~PemDecodes(key) THEN "panic"
  ELSE IF ~ParsesAsPublicKey(key) THEN "panic"
  ELSE IF ~Base64Decode(header).ok THEN "unable to decode base64 signature"
  ELSE IF ~IsRSAKey(key) THEN "panic"
  ELSE IF ~VerifyPKCS1v15(key, Sha256(token), Base64Decode(header).value) THEN "unable to verify signature"
  ELSE "ok"

\* what the decoder finds in the bytes it reads: no bytes are no JSON
FcPayload(bytes) ==
  IF bytes = <<>> THEN [json |-> FALSE, has_message |-> FALSE, message |-> FcNoMessage]
  ELSE bytes[1]

\* handlers.DecodeAndValidateJSON on moPayload, which requires no field
FcDecodes(body) == body.json

\* lines 90-97: the text is the last text part's, the media the last image part's
\* the loop keeping the text of the first part that has one
RECURSIVE FcLastText_First(_, _)
FcLastText_First(ps, cur) ==
  IF ps = <<>> THEN cur
  ELSE IF Head(ps).has_text THEN Head(ps).text
  ELSE FcLastText_First(Tail(ps), cur)

RECURSIVE FcLastText(_, _)
FcLastText(ps, cur) ==
  IF ps = <<>> THEN cur
  ELSE FcLastText(Tail(ps), IF Head(ps).has_text THEN Head(ps).text ELSE cur)

RECURSIVE FcLastImage(_, _)
FcLastImage(ps, cur) ==
  IF ps = <<>> THEN cur
  ELSE FcLastImage(Tail(ps), IF Head(ps).has_image THEN Head(ps).image ELSE cur)

\* the characters of the ids the model uses
Chars(id) ==
  CASE id = "" -> <<>>
    [] id = "c" -> <<"c">>
    [] id = "u" -> <<"u">>
    [] id = "u/v" -> <<"u", "/", "v">>

\* the Msg of an accepted event with the actor's id written before the channel's
FcIncomingMsg_ActorFirst(m) ==
  LET mediaURL == FcLastImage(m.message_parts, "")
  IN  [urn |-> [scheme |-> "freshchat", path |-> Chars(m.actor_id) \o <<"/">> \o Chars(m.channel_id)],
       text |-> FcLastText(m.message_parts, ""),
       attachments |-> IF mediaURL # "" THEN <<mediaURL>> ELSE <<>>,
       external_id |-> "", received_on |-> m.created_time, contact_name |-> ""]

\* lines 77-104: the Msg of an accepted event; the path of its URN is the string
\* urnparts holds (lines 79-83)
FcIncomingMsg(m) ==
  LET mediaURL == FcLastImage(m.message_parts, "")
  IN  [urn |-> [scheme |-> "freshchat", path |-> Chars(m.channel_id) \o <<"/">> \o Chars(m.actor_id)],
       text |-> FcLastText(m.message_parts, ""),
       attachments |-> IF mediaURL # "" THEN <<mediaURL>> ELSE <<>>,
       external_id |-> "", received_on |-> m.created_time, contact_name |-> ""]

\* receiveMessage with the body decoded before the signature is looked at
FcRoute_DecodeFirst(v, body) ==
  IF ~FcDecodes(body) THEN "decode error"
  ELSE IF v = "panic" THEN "panic"
  ELSE IF v # "ok" THEN "signature error"
  ELSE IF ~body.has_message THEN "panic"
  ELSE IF body.message.actor_id = "" THEN "ignored"
  ELSE IF body.message.actor_type = "agent" THEN "ignored"
  ELSE "msg"

\* lines 54-72: where receiveMessage goes, given what validateSignature did (v)
FcRoute(v, body) ==
  IF v = "panic" THEN "panic"
  ELSE IF v # "ok" THEN "signature error"
  ELSE IF ~FcDecodes(body) THEN "decode error"
  ELSE IF ~body.has_message THEN "panic"
  ELSE IF body.message.actor_id = "" THEN "ignored"
  ELSE IF body.message.actor_type = "agent" THEN "ignored"
  ELSE "msg"

\* receiveMessage (lines 53-107)
FcReceiveMessage ==
  /\ Idle
  /\ \E validate \in BOOLEAN, key \in FcKeys, body \in FcBodies, failAt \in 0..1 :
       \E header \in FcHeaders(body) :
         LET rd == FcBufferBody(validate, header, NewBuffer(FcBytes(body)))
             v == ValidateSignature(validate, key, header, rd.token)
             payload == FcPayload(rd.after)
             route == FcRoute(v, payload)
         IN  /\ op' = "FcReceiveMessage"
             /\ inp' = [validateSignatures |-> validate, key |-> key, header |-> header, body |-> body]
             /\ sigResult' = v
             /\ reqBody' = rd
             /\ UNCHANGED <<joined, workers>>
             /\ pc' = "done"
             /\ NoSend
             /\ CASE route = "panic" -> Panic
                  [] route = "signature error" -> RequestError(v)
                  [] route = "decode error" -> RequestError("decode")
                  [] route = "ignored" -> RequestIgnored
                  [] route = "msg" -> WriteMsgsAndResponse(<<FcIncomingMsg(payload.message)>>, failAt)

----------------------------------------------------------------------------
(* Slack: src/handlers/slack/slack.go, which holds two definitions of the handler *)

SlConfigs == [bot_token : {"", "xoxb"}]

SlMsgs == [text : {<<>>, <<[ch |-> "a", n |-> 2]>>}, attachments : {<<>>, <<"u1">>, <<"u1", "u2">>}]

\* the answer to chat.postMessage: a transport error or not, and the body's field ok
SlTextAnswers == [terr : BOOLEAN, ok : {"absent", "true", "false"}]

\* what happens to one attachment: http.NewRequest on its URL, the fetch,
\* utils.BasePathForURL, and the answer to files.upload
SlAttAnswers ==
  [url : {"bad"}, fetch : {"ok"}, name : {"ok"}, up : {"ok"}]
    \cup [url : {"ok"}, fetch : {"ok", "terr"}, name : {"bad"}, up : {"ok"}]
    \cup [url : {"ok"}, fetch : {"ok", "terr"}, name : {"ok"}, up : {"ok", "terr", "badjson", "notok"}]

SlAnswerSeqs(n) == [1..n -> SlAttAnswers]

\* lines 168-171 and 608-611: the credential check
SlCredsOK(cfg) == cfg.bot_token # ""

\* a call in progress: stop is set once SendMsg has returned
SlStart == [stop |-> FALSE, err |-> "none", logs |-> <<>>, reqs |-> <<>>, hasError |-> TRUE]

SlReturn(acc, e) == [acc EXCEPT !.stop = TRUE, !.err = e]

SlLog(acc, l) == [acc EXCEPT !.logs = Append(@, l)]

SlReq(acc, r) == [acc EXCEPT !.reqs = Append(@, r)]

\* first definition, lines 176-203: the text is posted first
SlPostText1(m, tans, acc) ==
  IF m.text = <<>> THEN acc
  ELSE LET a1 == SlLog(SlReq(acc, [to |-> "chat.postMessage", text |-> m.text]),
                       [kind |-> "Message Sent", failed |-> tans.terr])
       IN  IF tans.ok = "absent" THEN SlReturn(a1, "parse")
           ELSE IF tans.ok = "false" THEN SlReturn(a1, "none")
           ELSE a1

\* first definition, lines 207-229: every attachment is fetched
RECURSIVE SlFetchAll1(_, _, _, _)
SlFetchAll1(m, aans, i, acc) ==
  IF acc.stop \/ i > Len(m.attachments) THEN acc
  ELSE IF aans[i].url = "bad" THEN SlReturn(acc, "build")
  ELSE LET a1 == SlLog(SlReq(acc, [to |-> "fetch", url |-> m.attachments[i]]),
                       [kind |-> "Fetching media", failed |-> aans[i].fetch = "terr"])
       IN  IF aans[i].fetch = "terr" THEN SlReturn(a1, "transport")
           ELSE IF aans[i].name = "bad" THEN SlReturn(a1, "name")
           ELSE SlFetchAll1(m, aans, i + 1, a1)

\* first definition, lines 231-280: every fetched attachment is uploaded
RECURSIVE SlUploadAll1(_, _, _, _)
SlUploadAll1(m, aans, i, acc) ==
  IF acc.stop \/ i > Len(m.attachments) THEN acc
  ELSE LET a1 == SlReq(acc, [to |-> "files.upload", url |-> m.attachments[i]])
       IN  IF aans[i].up = "terr" THEN SlReturn(a1, "transport")
           ELSE IF aans[i].up = "badjson" THEN SlReturn(a1, "parse")
           ELSE IF aans[i].up = "notok" THEN SlReturn(a1, "provider")
           ELSE SlUploadAll1(m, aans, i + 1,
                             SlLog(a1, [kind |-> "uploading file to Slack", failed |-> FALSE]))

\* first definition, lines 174-285, after the credential check
SlRun1(m, tans, aans) ==
  LET a1 == SlPostText1(m, tans, SlStart)
      a2 == SlFetchAll1(m, aans, 1, a1)
      a3 == SlUploadAll1(m, aans, 1, a2)
  IN  [status |-> IF a3.stop THEN "E" ELSE "W", err |-> a3.err, logs |-> a3.logs, reqs |-> a3.reqs,
       statusValues |-> IF a3.stop THEN <<"E">> ELSE <<"E", "W">>]

\* second definition, lines 681-700: parseAttachmentToFileParams gives a file or none,
\* a log or none, and an error or none; the fetch's own error is overwritten
SlParseAttachment2(ans) ==
  IF ans.url = "bad" THEN [file |-> FALSE, log |-> FALSE, fetched |-> FALSE, err |-> TRUE]
  ELSE IF ans.name = "bad" THEN [file |-> FALSE, log |-> TRUE, fetched |-> TRUE, err |-> TRUE]
  ELSE [file |-> TRUE, log |-> TRUE, fetched |-> TRUE, err |-> FALSE]

\* second definition, lines 702-748: sendFilePart gives a log and no error, or no log and an error
SlSendFilePartOK2(ans) == ans.up = "ok"

\* second definition, lines 642-679: sendTextMsgPart's error is nil
SlSendTextOK2(tans) == tans.ok = "true"

\* second definition, lines 619, 624, 631: hasError after a part that ended with error e
SlHasError2(old, e) == e

\* second definition, lines 617-627: the loop over the attachments
RECURSIVE SlAttachments2(_, _, _, _)
SlAttachments2(m, aans, i, acc) ==
  IF i > Len(m.attachments) THEN acc
  ELSE LET pa == SlParseAttachment2(aans[i])
           a1 == IF pa.fetched THEN SlReq(acc, [to |-> "fetch", url |-> m.attachments[i]]) ELSE acc
           a2 == SlLog([a1 EXCEPT !.hasError = SlHasError2(@, pa.err)],
                       IF pa.log THEN [kind |-> "Fetching attachment", failed |-> aans[i].fetch = "terr"]
                       ELSE [kind |-> "nil", failed |-> TRUE])
           a3 == IF ~pa.file THEN a2
                 ELSE SlLog([SlReq(a2, [to |-> "files.upload", url |-> m.attachments[i]])
                               EXCEPT !.hasError = SlHasError2(@, ~SlSendFilePartOK2(aans[i]))],
                            IF SlSendFilePartOK2(aans[i])
                            THEN [kind |-> "uploading file to Slack", failed |-> FALSE]
                            ELSE [kind |-> "nil", failed |-> TRUE])
       IN  SlAttachments2(m, aans, i + 1, a3)

\* second definition, lines 629-633: the text is posted last
SlPostText2(m, tans, acc) ==
  IF m.text = <<>> THEN acc
  ELSE SlLog([SlReq(acc, [to |-> "chat.postMessage", text |-> m.text])
                EXCEPT !.hasError = SlHasError2(@, ~SlSendTextOK2(tans))],
             [kind |-> "Message Sent", failed |-> tans.terr])

\* second definition, lines 613-639, after the credential check
SlRun2(m, tans, aans) ==
  LET a1 == SlAttachments2(m, aans, 1, SlStart)
      a2 == SlPostText2(m, tans, a1)
  IN  [status |-> IF ~a2.hasError THEN "W" ELSE "E", err |-> "none", logs |-> a2.logs, reqs |-> a2.reqs,
       statusValues |-> IF ~a2.hasError THEN <<"E", "W">> ELSE <<"E">>]

SlSend(name, cfg, m, tans, aans, r) ==
  /\ Enter(name, [cfg |-> cfg, msg |-> m, text_answer |-> tans, attachment_answers |-> aans])
  /\ msgs' = <<>> /\ resp' = "none" /\ written' = <<>> /\ panicked' = FALSE /\ events' = <<>>
  /\ parts' = <<>> /\ idx' = 0 /\ pc' = "done" /\ extid' = ""
  /\ IF ~SlCredsOK(cfg)
     THEN /\ status' = "nil" /\ err' = "config" /\ logs' = <<>> /\ reqs' = <<>>
          /\ statusValues' = <<>>
     ELSE /\ status' = r.status /\ err' = r.err /\ logs' = r.logs /\ reqs' = r.reqs
          /\ statusValues' = r.statusValues

\* SendMsg, first definition (lines 167-286)
SlSendMsg1 ==
  /\ Idle
  /\ \E cfg \in SlConfigs, m \in SlMsgs, tans \in SlTextAnswers :
    \E aans \in SlAnswerSeqs(Len(m.attachments)) :
      SlSend("SlSendMsg1", cfg, m, tans, aans, SlRun1(m, tans, aans))

\* SendMsg, second definition (lines 607-640)
SlSendMsg2 ==
  /\ Idle
  /\ \E cfg \in SlConfigs, m \in SlMsgs, tans \in SlTextAnswers :
    \E aans \in SlAnswerSeqs(Len(m.attachments)) :
      SlSend("SlSendMsg2", cfg, m, tans, aans, SlRun2(m, tans, aans))

----------------------------------------------------------------------------
(* utils.JoinNonEmpty: src/utils/misc.go.  A string is the sequence of its characters. *)

JnStrings == {<<>>, <<"a">>, <<"b", "c">>}

JnDelims == {<<>>, <<",">>, <<"-", "-">>, <<"a">>}

JnStringLists == UNION {[1..n -> JnStrings] : n \in 0..MaxStrings}

\* the loop with the delimiter written before every string but the first
RECURSIVE JoinLoop_DelimPerString(_, _, _, _)
JoinLoop_DelimPerString(delim, strings, i, buf) ==
  IF i > Len(strings) THEN buf
  ELSE JoinLoop_DelimPerString(delim, strings, i + 1,
         IF strings[i] # <<>>
         THEN (IF i > 1 THEN buf \o delim ELSE buf) \o strings[i]
         ELSE buf)

\* lines 20-28: the loop over the strings, writing to the buffer buf
RECURSIVE JoinLoop(_, _, _, _)
JoinLoop(delim, strings, i, buf) ==
  IF i > Len(strings) THEN buf
  ELSE JoinLoop(delim, strings, i + 1,
         IF strings[i] # <<>>
         THEN (IF Len(buf) > 0 THEN buf \o delim ELSE buf) \o strings[i]
         ELSE buf)

\* lines 19-30
JoinNonEmpty(delim, strings) == JoinLoop(delim, strings, 1, <<>>)

\* a call of utils.JoinNonEmpty
CallJoinNonEmpty ==
  /\ Idle
  /\ \E delim \in JnDelims, strings \in JnStringLists :
       /\ op' = "JoinNonEmpty"
       /\ inp' = [delim |-> delim, strings |-> strings]
       /\ joined' = JoinNonEmpty(delim, strings)
  /\ pc' = "done"
  /\ UNCHANGED <<status, err, logs, reqs, extid, msgs, resp, written, panicked, sigResult,
                 parts, idx, reqBody, events, statusValues, workers>>

----------------------------------------------------------------------------
(* Slack, inbound: receiveEvent, defined twice in slack.go (lines 66-120 and 505-560) *)

\* urns.NewURNFromParts returns no error: a URN has a scheme and a non-empty path
NewURNFromPartsOK(scheme, path) == scheme # "" /\ path # ""

\* strings.Contains(t, "message") on the event types the model uses
ContainsMessage(t) == t \in {"message", "app_message_sent"}

SlValidationToken == "tok"

\* a file of a message event; its public permalink is cut at every "-"
SlEventFile(id) ==
  [id |-> id, url_private_download |-> <<"event", id>>, permalink_public |-> <<"T", id, "evs">>]

\* the same file as files.sharedPublicURL returns it
SlApiFile(id) ==
  [id |-> id, url_private_download |-> <<"api", id>>, permalink_public |-> <<"T", id, "aps">>]

SlFileLists == {<<>>, <<SlEventFile("F1")>>, <<SlEventFile("F1"), SlEventFile("F2")>>}

SlEvents ==
  [type : {"message", "app_message_sent", "reaction_added"}, bot_id : {"", "B1"},
   channel_type : {"channel", "im", "group"},
   ids : {[channel |-> "C1", user |-> "U1"], [channel |-> "", user |-> "U1"],
          [channel |-> "C1", user |-> ""]},
   text : {"", "hi"}, files : SlFileLists]

\* the zero event of a payload that carries none
SlNoEvent ==
  [type |-> "", bot_id |-> "", channel_type |-> "", ids |-> [channel |-> "", user |-> ""],
   text |-> "", files |-> <<>>]

\* the payloads tried: valid is the outcome of handlers.DecodeAndValidateJSON
SlMoPayloads ==
  [valid : {FALSE}, type : {"event_callback"}, token : {"tok"}, challenge : {""},
   event : {SlNoEvent}, event_id : {"Ev1"}, event_time : {1}]
    \cup [valid : {TRUE}, type : {"url_verification"}, token : {"tok", "other"},
          challenge : {"c0ffee"},
          event : {SlNoEvent,
                   [type |-> "message", bot_id |-> "", channel_type |-> "im",
                    ids |-> [channel |-> "C1", user |-> "U1"], text |-> "hi",
                    files |-> <<SlEventFile("F1")>>]},
          event_id : {""}, event_time : {0}]
    \cup [valid : {TRUE}, type : {"event_callback"}, token : {"tok"}, challenge : {""},
          event : SlEvents, event_id : {"Ev1"}, event_time : {1}]

\* what users.info gives back: a transport error, a body that is not JSON, the JSON
\* null, or a user
SlUserAnswers ==
  [kind : {"terr", "badjson", "null"}, real_name : {""}]
    \cup [kind : {"ok"}, real_name : {"", "Ann"}]

SlNoAnswer == [kind |-> "not called", real_name |-> ""]

\* what files.sharedPublicURL gives back for one file: a transport error, a body that
\* is not JSON, ok false with an error, or ok true with the file
SlFileAnswers ==
  [kind : {"terr", "badjson", "other_error", "public_video_not_allowed", "already_public", "ok"}]

\* lines 505-517 without the test of bot_id
SlFilter_BotNotFiltered(p) ==
  IF ~p.valid THEN "decode"
  ELSE IF p.type = "url_verification" THEN "url_verification"
  ELSE IF ContainsMessage(p.event.type) THEN "message"
  ELSE "ignored"

\* lines 505-517 and 559: decode error, handshake, message or ignored
SlFilter(p) ==
  IF ~p.valid THEN "decode"
  ELSE IF p.type = "url_verification" THEN "url_verification"
  ELSE IF ContainsMessage(p.event.type) /\ p.event.bot_id = "" THEN "message"
  ELSE "ignored"

\* lines 521-530: users.info is called for a direct message
SlCallsUserInfo(p) == SlFilter(p) = "message" /\ p.event.channel_type = "im"

\* lines 521-530: the path of the sender's URN
SlPath(ev) ==
  IF ev.channel_type = "channel" THEN ev.ids.channel
  ELSE IF ev.channel_type = "im" THEN ev.ids.user
  ELSE ""

\* lines 526-530: the name users.info gave
SlUserName(p, ua) == IF p.event.channel_type = "im" THEN ua.real_name ELSE ""

\* the route with the error of urns.NewURNFromParts dropped
SlRoute_URNUnchecked(p, ua) ==
  IF SlFilter(p) # "message" THEN SlFilter(p)
  ELSE IF SlCallsUserInfo(p) /\ ua.kind \in {"terr", "badjson"} THEN "user info"
  ELSE IF SlCallsUserInfo(p) /\ ua.kind = "null" THEN "panic"
  ELSE "msg"

\* lines 505-538: where receiveEvent goes.  users.info answering null leaves the
\* pointer nil without an error, and reading the name through it panics
SlRoute(p, ua) ==
  IF SlFilter(p) # "message" THEN SlFilter(p)
  ELSE IF SlCallsUserInfo(p) /\ ua.kind \in {"terr", "badjson"} THEN "user info"
  ELSE IF SlCallsUserInfo(p) /\ ua.kind = "null" THEN "panic"
  ELSE IF ~NewURNFromPartsOK("slack", SlPath(p.event)) THEN "invalid urn"
  ELSE "msg"

\* resolveFile returns no error (lines 562-605)
SlResolves(fa) == fa.kind \in {"already_public", "ok"}

\* resolveFile, lines 594-604: the URL of a file that resolved
SlFileURL(file, fa) ==
  LET currentFile == IF fa.kind = "ok" THEN SlApiFile(file.id) ELSE file
      pubLnkSplited == currentFile.permalink_public
  IN  <<currentFile.url_private_download, "?pub_secret=", pubLnkSplited[Len(pubLnkSplited)]>>

\* the loop over the files left at the first file that does not resolve
RECURSIVE SlAttachmentURLs_StopAtFailure(_, _)
SlAttachmentURLs_StopAtFailure(files, fas) ==
  IF files = <<>> \/ ~SlResolves(Head(fas)) THEN <<>>
  ELSE <<SlFileURL(Head(files), Head(fas))>> \o SlAttachmentURLs_StopAtFailure(Tail(files), Tail(fas))

\* lines 540-548: the URLs of the files that resolved, in the order of the files
RECURSIVE SlAttachmentURLs(_, _)
SlAttachmentURLs(files, fas) ==
  IF files = <<>> THEN <<>>
  ELSE (IF SlResolves(Head(fas)) THEN <<SlFileURL(Head(files), Head(fas))>> ELSE <<>>)
         \o SlAttachmentURLs(Tail(files), Tail(fas))

\* lines 550-555: the Msg of a message event
SlIncomingMsg(p, ua, fas) ==
  [urn |-> [scheme |-> "slack", path |-> SlPath(p.event), display |-> SlUserName(p, ua)],
   text |-> p.event.text,
   attachments |-> SlAttachmentURLs(p.event.files, fas),
   external_id |-> p.event_id, received_on |-> p.event_time,
   contact_name |-> SlUserName(p, ua)]

\* the calls to the Slack API: users.info, then files.sharedPublicURL for every file
SlApiCalls(p, ua, fas) ==
  (IF SlCallsUserInfo(p) THEN <<[to |-> "users.info", id |-> p.event.ids.user]>> ELSE <<>>)
    \o (IF SlRoute(p, ua) = "msg"
        THEN [i \in 1..Len(p.event.files) |->
                [to |-> "files.sharedPublicURL", id |-> p.event.files[i].id]]
        ELSE <<>>)

\* the channel logs written to the Backend: for a failed users.info and for every
\* files.sharedPublicURL that failed in transport
RECURSIVE SlFileLogs(_)
SlFileLogs(fas) ==
  IF fas = <<>> THEN <<>>
  ELSE (IF Head(fas).kind = "terr" THEN <<[kind |-> "File Resolving", failed |-> TRUE]>> ELSE <<>>)
         \o SlFileLogs(Tail(fas))

SlChannelLogs(p, ua, fas) ==
  (IF SlRoute(p, ua) = "user info" THEN <<[kind |-> "Get User info", failed |-> TRUE]>> ELSE <<>>)
    \o (IF SlRoute(p, ua) = "msg" THEN SlFileLogs(fas) ELSE <<>>)

\* the handshake answered without the comparison of the tokens
SlHandleURLVerification_NoTokenCheck(p) ==
  /\ msgs' = <<>> /\ written' = <<>> /\ events' = <<>> /\ panicked' = FALSE
  /\ resp' = p.challenge /\ err' = "none"

\* handleURLVerification (lines 54-64 and 493-503)
SlHandleURLVerification(p) ==
  /\ msgs' = <<>> /\ written' = <<>> /\ events' = <<>> /\ panicked' = FALSE
  /\ IF SlValidationToken # p.token
     THEN resp' = "forbidden" /\ err' = "wrong validation token"
     ELSE resp' = p.challenge /\ err' = "none"

SlReceive(name, p, ua, fas, failAt) ==
  /\ Enter(name, [request |-> p, user_answer |-> ua, file_answers |-> fas, fail_at |-> failAt])
  /\ pc' = "done"
  /\ UNCHANGED <<status, extid, parts, idx, statusValues>>
  /\ reqs' = SlApiCalls(p, ua, fas)
  /\ logs' = SlChannelLogs(p, ua, fas)
  /\ CASE SlRoute(p, ua) = "msg" -> WriteMsgsAndResponse(<<SlIncomingMsg(p, ua, fas)>>, failAt)
       [] SlRoute(p, ua) = "ignored" -> RequestIgnored
       [] SlRoute(p, ua) = "url_verification" -> SlHandleURLVerification(p)
       [] SlRoute(p, ua) = "panic" -> Panic
       [] OTHER -> RequestError(SlRoute(p, ua))

\* the answers a call can get: none for a call that is not made
SlUserAnswersFor(p) == IF SlCallsUserInfo(p) THEN SlUserAnswers ELSE {SlNoAnswer}

SlFileAnswersFor(p, ua) ==
  IF SlRoute(p, ua) = "msg" THEN [1..Len(p.event.files) -> SlFileAnswers] ELSE {<<>>}

\* receiveEvent, first definition (lines 66-120)
SlReceiveEvent1 ==
  /\ Idle
  /\ \E p \in SlMoPayloads :
       \E ua \in SlUserAnswersFor(p) :
         \E fas \in SlFileAnswersFor(p, ua), failAt \in 0..1 :
           SlReceive("SlReceiveEvent1", p, ua, fas, failAt)

\* receiveEvent, second definition (lines 505-560)
SlReceiveEvent2 ==
  /\ Idle
  /\ \E p \in SlMoPayloads :
       \E ua \in SlUserAnswersFor(p) :
         \E fas \in SlFileAnswersFor(p, ua), failAt \in 0..1 :
           SlReceive("SlReceiveEvent2", p, ua, fas, failAt)

----------------------------------------------------------------------------
(* Zenvia SendMsg called by several workers at once.  A call works on the status it *)
(* created and on its own locals; the package's maxMsgLength and sendURL are only   *)
(* read.                                                                            *)

\* what the single-call actions work on
callVars == <<pc, op, inp, status, err, logs, reqs, extid, msgs, resp, written, panicked,
              sigResult, parts, idx, reqBody, events, joined, statusValues>>

\* lines 193-194: the call after the credential checks, about to enter the loop
ZvBegin(m) ==
  [pc |-> IF SplitMsg(GetTextAndAttachments(m.text, m.attachments), ZvMaxMsgLength) = <<>>
          THEN "done" ELSE "send",
   msg |-> m,
   parts |-> SplitMsg(GetTextAndAttachments(m.text, m.attachments), ZvMaxMsgLength), idx |-> 1,
   status |-> "E", err |-> "none", logs |-> <<>>, reqs |-> <<>>, answers |-> <<>>]

\* lines 195-235: one turn of the loop of the call c, answered by ans
ZvTurn(c, ans) ==
  LET c1 == [c EXCEPT !.reqs = Append(@, [to |-> "zenvia", msg |-> c.parts[c.idx]]),
                      !.logs = Append(@, [part |-> c.idx, failed |-> ans.terr, code |-> ans.code]),
                      !.answers = Append(@, ans)]
  IN  IF ans.terr THEN [c1 EXCEPT !.err = "transport", !.pc = "done"]
      ELSE IF ~ZvPartOK(ans) THEN [c1 EXCEPT !.err = "provider", !.pc = "done"]
      ELSE [c1 EXCEPT !.status = "W", !.idx = @ + 1,
                      !.pc = IF c.idx = Len(c.parts) THEN "done" ELSE "send"]

\* worker w calls SendMsg for a message of its own
ZvWorkerSendMsg(w) ==
  /\ workers[w].pc = "idle"
  /\ \E m \in ZvMsgs : workers' = [workers EXCEPT ![w] = ZvBegin(m)]
  /\ UNCHANGED callVars

\* a turn of the loop with the status kept in one place for all the calls: the log
\* of w's exchange also lands on the other calls
ZvWorkerSendPart_SharedStatus(w) ==
  /\ workers[w].pc = "send"
  /\ \E ans \in ZvAnswers :
       workers' = [v \in Workers |->
                    IF v = w THEN ZvTurn(workers[w], ans)
                    ELSE [workers[v] EXCEPT
                            !.logs = Append(@, [part |-> workers[w].idx, failed |-> ans.terr,
                                                code |-> ans.code])]]
  /\ UNCHANGED callVars

\* worker w's call runs one turn of its loop
ZvWorkerSendPart(w) ==
  /\ workers[w].pc = "send"
  /\ \E ans \in ZvAnswers : workers' = [workers EXCEPT ![w] = ZvTurn(@, ans)]
  /\ UNCHANGED callVars

NextConcurrent == \E w \in Workers : ZvWorkerSendMsg(w) \/ ZvWorkerSendPart(w)

SpecConcurrent == Init /\ [][NextConcurrent]_vars

----------------------------------------------------------------------------

Next ==
  \/ ZvwSendMsg
  \/ FcSendMsg
  \/ SlSendMsg1
  \/ SlSendMsg2
  \/ ZvSendMsg
  \/ ZvSendPart
  \/ ZvStatusMessage
  \/ ZvReceiveMessage
  \/ ZvwReceiveStatus
  \/ FcReceiveMessage
  \/ ZvwReceiveMessage
  \/ SlReceiveEvent1
  \/ SlReceiveEvent2
  \/ CallJoinNonEmpty

Spec == Init /\ [][Next]_vars

----------------------------------------------------------------------------
(* The outbound contract: status, error and credentials *)

SendOps == {"ZvSendMsg", "ZvwSendMsg", "FcSendMsg", "SlSendMsg1", "SlSendMsg2"}

\* a SendMsg call has returned (a call that panicked returns nothing)
Returned(name) == Done(name) /\ ~panicked

\* a Zenvia exchange succeeded: no transport error and a known, non-errored status code
ZvExchangeOK(l) == ~l.failed /\ l.code \in {"00", "01", "02", "03"}

\* C1: Zenvia SendMsg returns wired only if all k parts were sent and every one
\* succeeded; if any part fails, also a later one after earlier ones succeeded, the
\* returned status is errored.
C1_ZvWiredOnlyIfEveryPartSucceeded ==
  (Returned("ZvSendMsg") /\ status # "nil") =>
    /\ status = "W" => /\ Len(logs) = Len(parts)
                       /\ \A i \in 1..Len(logs) : ZvExchangeOK(logs[i])
    /\ (\E i \in 1..Len(logs) : ~ZvExchangeOK(logs[i])) => status = "E"

\* some provider call of the returned SendMsg failed, by its transport or by the
\* provider's payload-level indicator
SendCallFailed ==
  CASE op = "ZvSendMsg" -> \E i \in 1..Len(logs) : ~ZvExchangeOK(logs[i])
    [] op = "ZvwSendMsg" -> reqs # <<>> /\ (inp.answer.terr \/ inp.answer.idkind # "string")
    [] op = "FcSendMsg" -> reqs # <<>> /\ inp.answer.terr
    [] op \in {"SlSendMsg1", "SlSendMsg2"} ->
         \E i \in 1..Len(reqs) :
           \/ /\ reqs[i].to = "chat.postMessage"
              /\ (inp.text_answer.terr \/ inp.text_answer.ok # "true")
           \/ /\ reqs[i].to = "fetch"
              /\ \E j \in 1..Len(inp.msg.attachments) :
                   inp.msg.attachments[j] = reqs[i].url /\ inp.attachment_answers[j].fetch = "terr"
           \/ /\ reqs[i].to = "files.upload"
              /\ \E j \in 1..Len(inp.msg.attachments) :
                   inp.msg.attachments[j] = reqs[i].url /\ inp.attachment_answers[j].up # "ok"
    [] OTHER -> FALSE

\* C2: in every adapter's SendMsg, once the credential check has passed, a transport
\* failure or a provider payload-level failure of a send call makes SendMsg return a
\* non-wired status together with a non-nil error.
C2_SendFailureIsNonWiredWithError ==
  (op \in SendOps /\ Returned(op) /\ status # "nil" /\ SendCallFailed) =>
    (status # "W" /\ err # "none")

\* C3: Slack SendMsg (attachments, then text) returns wired only if every attachment
\* fetch, every file upload and the text post succeeded; the failure of an earlier
\* part leaves the status errored even when a later part succeeds.
C3_SlWiredOnlyIfEveryPartSucceeded ==
  (Returned("SlSendMsg2") /\ status = "W") =>
    /\ \A j \in 1..Len(inp.msg.attachments) :
         /\ inp.attachment_answers[j].url = "ok"
         /\ inp.attachment_answers[j].fetch = "ok"
         /\ inp.attachment_answers[j].name = "ok"
         /\ inp.attachment_answers[j].up = "ok"
    /\ inp.msg.text # <<>> => inp.text_answer.ok = "true"

\* a credential the adapter requires is missing from the channel configuration
CredentialMissing ==
  CASE op = "ZvSendMsg" -> inp.cfg.username = "" \/ inp.cfg.password = ""
    [] op = "ZvwSendMsg" -> inp.cfg.api_key = ""
    [] op = "FcSendMsg" -> inp.cfg.username = "" \/ inp.cfg.auth_token = ""
    [] op \in {"SlSendMsg1", "SlSendMsg2"} -> inp.cfg.bot_token = ""
    [] OTHER -> FALSE

\* C5: when a required credential is missing, SendMsg returns an error at once: no
\* status has been created and no HTTP call has been issued.
C5_MissingCredentialReturnsAtOnce ==
  (op \in SendOps /\ CredentialMissing) =>
    /\ pc = "done" /\ ~panicked
    /\ status = "nil" /\ err = "config"
    /\ reqs = <<>> /\ logs = <<>>

\* a Zenvia call whose user name is set and whose password is missing
C5_Witness ==
  /\ Done("ZvSendMsg") /\ inp.cfg.username = "user" /\ inp.cfg.password = ""
  /\ status = "nil" /\ err = "config" /\ reqs = <<>>

----------------------------------------------------------------------------
(* The inbound contract: FreshChat *)

\* the header carries the signature of exactly this body, made by the signer whose
\* RSA public key the channel is configured with
FcValidSignature ==
  /\ inp.header.kind = "b64"
  /\ inp.header.sig.digest = Sha256(FcBytes(inp.body))
  /\ inp.key = (IF inp.header.sig.signer = "s1" THEN "pem:rsa:s1" ELSE "pem:rsa:s2")

\* C4: with validation enabled validateSignature never panics, whatever the configured
\* key, the header and the body: it returns success or an error; it succeeds for a
\* body with its valid signature and returns an error when the body differs from the
\* one that was signed.
C4_ValidateSignatureNeverPanics ==
  (Done("FcReceiveMessage") /\ inp.validateSignatures) =>
    /\ sigResult # "panic"
    /\ FcValidSignature => sigResult = "ok"
    /\ (inp.header.kind = "b64" /\ inp.header.sig.digest # Sha256(FcBytes(inp.body))) => sigResult # "ok"

\* the event was decoded: the signature step let it pass and the body is JSON
FcDecoded == Done("FcReceiveMessage") /\ sigResult = "ok" /\ inp.body.json

\* C6: a decoded FreshChat event that carries no message (no message object, or an
\* empty actor id) or whose actor type is agent gives zero Msgs, persists nothing and
\* is acknowledged as ignored; it never ends with an error or a crash.
C6_FcNoMessageOrAgentIsIgnored ==
  (FcDecoded /\ (\/ ~inp.body.has_message
                 \/ inp.body.message.actor_id = ""
                 \/ inp.body.message.actor_type = "agent")) =>
    /\ ~panicked
    /\ resp = "ignored" /\ err = "none"
    /\ msgs = <<>> /\ written = <<>>

\* C10 as claimed: decoding is the first step, so a request whose body fails decoding
\* ends with the decoding error, whether or not its signature header is present and
\* valid (stated for the calls that return).
C10_DecodeErrorComesFirst ==
  (Returned("FcReceiveMessage") /\ ~inp.body.json) => (resp = "error" /\ err = "decode")

\* C10, amended: the signature is verified first and the body decoded second.  A
\* request whose body fails decoding creates no Msg; it ends with the decoding error
\* exactly when validateSignature returned success, and with validateSignature's own
\* error when that returned one: the missing-signature error for a request without
\* the header, whatever its body.
C10_SignatureErrorComesFirst ==
  (Done("FcReceiveMessage") /\ ~inp.body.json) =>
    /\ msgs = <<>> /\ written = <<>> /\ resp # "ok"
    /\ sigResult = "ok" => (resp = "error" /\ err = "decode")
    /\ sigResult \notin {"ok", "panic"} => (resp = "error" /\ err = sigResult)
    /\ (inp.validateSignatures /\ inp.header.kind = "") => err = "missing request signature"
    /\ ~inp.validateSignatures => err = "decode"

\* a request without the signature header whose body is not JSON, rejected for the header
C10_Witness ==
  /\ Done("FcReceiveMessage") /\ ~inp.body.json
  /\ inp.validateSignatures /\ inp.header.kind = ""
  /\ resp = "error" /\ err = "missing request signature"

----------------------------------------------------------------------------
(* The inbound contract: Zenvia WhatsApp messages *)

\* the event passed every check of receiveMessage, so its Msgs were built
ZvwAccepted == Done("ZvwReceiveMessage") /\ err \in {"none", "backend"} /\ resp # "ignored"

\* the Msgs share the sender, the time, the contact name and the external id
ZvwSharedFields(i) ==
  /\ msgs[i].urn = [scheme |-> "whatsapp", path |-> inp.request.from]
  /\ msgs[i].received_on = inp.request.timestamp
  /\ msgs[i].contact_name = inp.request.name
  /\ msgs[i].external_id = inp.request.id

----------------------------------------------------------------------------
(* The inbound contract: status webhooks *)

\* the status handler created a MsgStatus
StatusCreated(name) == Done(name) /\ status # "nil"

\* C8: in the Zenvia and Zenvia WhatsApp status handlers a status code that the
\* adapter's table does not hold (for Zenvia WhatsApp: in upper case, as the table is
\* consulted) is mapped to errored, and the MsgStatus is keyed by the external
\* message id of the payload.
C8_UnknownStatusCodeIsErrored ==
  /\ StatusCreated("ZvStatusMessage") =>
       /\ inp.request.status \notin {"00", "01", "02", "03", "04", "05", "06", "07", "08", "09", "10"}
            => status = "E"
       /\ extid = inp.request.id
  /\ StatusCreated("ZvwReceiveStatus") =>
       /\ ToUpper(inp.request.code) \notin {"REJECTED", "NOT_DELIVERED", "SENT", "DELIVERED", "READ"}
            => status = "E"
       /\ extid = inp.request.messageId

\* a Zenvia status webhook with a code outside the table, mapped to errored
C8_Witness ==
  /\ StatusCreated("ZvStatusMessage") /\ inp.request.status = "99"
  /\ status = "E" /\ extid = "hs1" /\ resp = "ok"

\* C9: the tables are Zenvia 00, 01, 02 -> sent, 03 -> delivered, 04..10 -> errored,
\* and Zenvia WhatsApp REJECTED, NOT_DELIVERED -> failed, SENT -> sent, DELIVERED,
\* READ -> delivered, matched after upper-casing; no code maps to wired.
C9_StatusTables ==
  /\ StatusCreated("ZvStatusMessage") =>
       LET c == inp.request.status
       IN  /\ c \in {"00", "01", "02"} => status = "S"
           /\ c = "03" => status = "D"
           /\ c \in {"04", "05", "06", "07", "08", "09", "10"} => status = "E"
           /\ status # "W"
  /\ StatusCreated("ZvwReceiveStatus") =>
       LET c == inp.request.code
       IN  /\ c \in {"REJECTED", "rejected", "NOT_DELIVERED", "not_delivered"} => status = "F"
           /\ c \in {"SENT", "sent"} => status = "S"
           /\ c \in {"DELIVERED", "delivered", "READ", "Read"} => status = "D"
           /\ status # "W"

\* a Zenvia WhatsApp status webhook whose code matches the table only in upper case
C9_Witness ==
  /\ StatusCreated("ZvwReceiveStatus") /\ inp.request.code = "Read"
  /\ status = "D" /\ extid = "m1"

----------------------------------------------------------------------------
(* The inbound contract: FreshChat's signature and the request body *)

\* validateSignature got as far as reading the body: validation is on and the
\* signature header is present
FcBodyWasRead == Done("FcReceiveMessage") /\ inp.validateSignatures /\ inp.header.kind # ""

C12_BadSignatureIsRejected ==
  (Done("FcReceiveMessage") /\ inp.validateSignatures /\ ~FcValidSignature) =>
    /\ resp = "error" /\ ~panicked
    /\ msgs = <<>> /\ written = <<>>

----------------------------------------------------------------------------
(* The inbound contract: Zenvia's handlers and the Backend *)

\* a Zenvia handler got as far as the Backend: the payload passed every check
ZvReachedBackend ==
  \/ Done("ZvReceiveMessage") /\ inp.request.valid /\ ZvTimeParses(inp.request.date)
  \/ Done("ZvStatusMessage") /\ inp.request.valid

\* C13: Zenvia ReceiveMessage and StatusMessage write the success acknowledgment only
\* after the Backend write has returned success; when the write fails no success
\* response is written, no event is returned and the error is returned to the caller.
C13_ZvAckOnlyAfterWrite ==
  /\ (op \in {"ZvReceiveMessage", "ZvStatusMessage"} /\ resp = "ok") =>
       (ZvReachedBackend /\ ~inp.write_fails /\ Len(written) = 1 /\ events = written)
  /\ (ZvReachedBackend /\ inp.write_fails) =>
       (resp = "none" /\ events = <<>> /\ written = <<>> /\ err = "backend")
  /\ (ZvReachedBackend /\ ~inp.write_fails) =>
       (resp = "ok" /\ err = "none" /\ Len(events) = 1)

\* a Zenvia message whose Backend write failed: the error and no acknowledgment
C13_Witness ==
  /\ Done("ZvReceiveMessage") /\ ZvReachedBackend /\ inp.write_fails
  /\ Len(msgs) = 1 /\ resp = "none" /\ err = "backend" /\ events = <<>>

----------------------------------------------------------------------------
(* The inbound contract: events that are not inbound messages, and timestamps *)

\* a structurally valid Zenvia WhatsApp event whose type is not MESSAGE
ZvwOtherType ==
  Done("ZvwReceiveMessage") /\ inp.request.valid /\ ToUpper(inp.request.type) # "MESSAGE"

\* C14 as claimed: a structurally valid event whose type is not MESSAGE is dropped as
\* an ignored outcome: a success response, zero Msgs, and no failure reported.
C14_ZvwOtherTypeIsIgnored ==
  ZvwOtherType => (resp = "ignored" /\ err = "none" /\ msgs = <<>>)

\* C14, amended: such an event is rejected: an error response naming the unsupported
\* event type, zero Msgs, no event and nothing persisted; the ignored outcome is kept
\* for an event of type MESSAGE, with a timestamp that parses, whose direction is not IN.
C14_ZvwOtherTypeIsRejected ==
  /\ ZvwOtherType =>
       /\ resp = "error" /\ err = "unsupported event type"
       /\ msgs = <<>> /\ events = <<>> /\ written = <<>>
  /\ (Done("ZvwReceiveMessage") /\ resp = "ignored") =>
       /\ inp.request.valid /\ ToUpper(inp.request.type) = "MESSAGE"
       /\ ZvwTimeParses(inp.request.timestamp)
       /\ ToUpper(inp.request.direction) # "IN"

\* a valid event of type MESSAGE_STATUS on the receive route, rejected
C14_Witness ==
  /\ ZvwOtherType /\ inp.request.type = "MESSAGE_STATUS"
  /\ ZvwTimeParses(inp.request.timestamp) /\ inp.request.direction = "IN"
  /\ resp = "error" /\ err = "unsupported event type"

\* C15: in Zenvia ReceiveMessage and Zenvia WhatsApp receiveMessage a payload whose
\* timestamp does not parse in the adapter's format is rejected with an error
\* response; no Msg is built and nothing is persisted.
C15_BadTimestampIsRejected ==
  /\ (Done("ZvReceiveMessage") /\ ~ZvTimeParses(inp.request.date)) =>
       /\ resp = "error" /\ err \in {"decode", "invalid date format"}
       /\ inp.request.valid => err = "invalid date format"
       /\ msgs = <<>> /\ events = <<>> /\ written = <<>>
  /\ (Done("ZvwReceiveMessage") /\ ~ZvwTimeParses(inp.request.timestamp)) =>
       /\ resp = "error" /\ err \in {"decode", "unsupported event type", "invalid date format"}
       /\ (inp.request.valid /\ ToUpper(inp.request.type) = "MESSAGE") =>
            err = "invalid date format"
       /\ msgs = <<>> /\ events = <<>> /\ written = <<>>
  /\ (Done("ZvReceiveMessage") /\ msgs # <<>>) =>
       inp.request.date \in {"2017-05-03T06:04:45.345-03:00", "2014-08-26T12:27:08.488+00:00"}

\* a Zenvia payload whose date has no milliseconds, rejected for its date
C15_Witness ==
  /\ Done("ZvReceiveMessage") /\ inp.request.valid
  /\ inp.request.date = "2017-05-03T06:04:45-03:00"
  /\ resp = "error" /\ err = "invalid date format" /\ msgs = <<>>

----------------------------------------------------------------------------
(* The outbound contract: the parts of a long text *)

\* the texts Zenvia has transmitted, in the order of its requests
ZvSentTexts == [i \in 1..Len(reqs) |-> reqs[i].msg]

\* the texts of the text parts in Zenvia WhatsApp's request, in order
RECURSIVE ZvwTextsOf(_)
ZvwTextsOf(cs) ==
  IF cs = <<>> THEN <<>>
  ELSE (IF Head(cs).type = "text" THEN <<Head(cs).text>> ELSE <<>>) \o ZvwTextsOf(Tail(cs))

C17_ZvSinglePart ==
  (Done("ZvSendMsg") /\ status # "nil"
     /\ TextLen(inp.msg.text) <= 150 /\ inp.msg.attachments = <<>>) =>
    /\ Len(reqs) = 1 /\ reqs[1].msg = inp.msg.text
    /\ Len(logs) = 1 /\ logs[1].part = 1
    /\ ZvExchangeOK(logs[1]) => (status = "W" /\ err = "none")
    /\ ~ZvExchangeOK(logs[1]) => (status = "E" /\ err \in {"transport", "provider"})
    /\ logs[1].failed <=> err = "transport"

\* a one-part Zenvia message that the provider answered with the errored code 04
C17_Witness ==
  /\ Done("ZvSendMsg") /\ TextLen(inp.msg.text) = 150 /\ inp.msg.attachments = <<>>
  /\ Len(reqs) = 1 /\ Len(logs) = 1 /\ logs[1].code = "04"
  /\ status = "E" /\ err = "provider"

\* a Zenvia WhatsApp send, past the credential check, of a text over 1152 characters
ZvwLongSend == Done("ZvwSendMsg") /\ status # "nil" /\ TextLen(inp.msg.text) > 1152

LogOf(r, l) ==
  CASE r.to = "zenvia" -> TRUE
    [] r.to = "zenvia-whatsapp" -> TRUE
    [] r.to = "freshchat" -> TRUE
    [] r.to = "chat.postMessage" -> l.kind = "Message Sent"
    [] r.to = "fetch" -> l.kind \in {"Fetching media", "Fetching attachment"}
    [] r.to = "files.upload" -> l.kind = "uploading file to Slack"
    [] OTHER -> FALSE

\* C19: every provider exchange attempted during SendMsg, successful or failed, is
\* recorded as exactly one ChannelLog on the status, in the order of the exchanges; a
\* send that fails on a provider call returns a status whose logs hold the entry of
\* the failed call.
C19_EveryExchangeIsLogged ==
  (op \in SendOps /\ status # "nil" /\ ~panicked) =>
    /\ Len(logs) = Len(reqs)
    /\ \A i \in 1..Len(reqs) : i <= Len(logs) /\ LogOf(reqs[i], logs[i])

\* C20: Zenvia WhatsApp SendMsg returns wired if and only if the provider call
\* succeeded and the response body has a string field id; the status's external id
\* is then that id, and in every other case the status stays errored with no
\* external id.
C20_ZvwWiredIffID ==
  (Done("ZvwSendMsg") /\ status # "nil") =>
    /\ status = "W" <=> (~inp.answer.terr /\ inp.answer.idkind = "string")
    /\ status = "W" => extid = inp.answer.id
    /\ status # "W" => (status = "E" /\ extid = "")

\* a send the provider answered with the id x1
C20_Witness ==
  /\ Done("ZvwSendMsg") /\ ~inp.answer.terr /\ inp.answer.id = "x1"
  /\ status = "W" /\ extid = "x1"

----------------------------------------------------------------------------
(* FreshChat: sends to any URN path, and handlers built without validation *)

\* C21: FreshChat SendMsg never crashes the process: for every destination URN path,
\* also one without the separator '/', the call ends by returning a status and/or an
\* error that belongs to this one send.
C21_FcSendMsgNeverCrashes ==
  (op = "FcSendMsg") =>
    /\ ~panicked
    /\ pc = "done" => (status # "nil" \/ err # "none")

\* C24: a FreshChat handler built with signature validation disabled accepts every
\* request at the verification step: validateSignature returns success whatever the
\* channel's key, the header and the body, and leaves the body unread for the decoder.
C24_ValidationDisabledAcceptsAll ==
  (Done("FcReceiveMessage") /\ ~inp.validateSignatures) =>
    /\ sigResult = "ok"
    /\ reqBody.reads = 0 /\ reqBody.token = <<>>
    /\ reqBody.after = FcBytes(inp.body)
    /\ err \notin {"missing request signature", "unable to decode base64 signature",
                   "unable to verify signature"}
    /\ inp.body.json <=> err # "decode"

\* an unsigned event for a channel without a key, accepted and turned into its Msg
C24_Witness ==
  /\ Done("FcReceiveMessage") /\ ~inp.validateSignatures
  /\ inp.key = "" /\ inp.header.kind = ""
  /\ sigResult = "ok" /\ reqBody.reads = 0 /\ resp = "ok" /\ Len(msgs) = 1

----------------------------------------------------------------------------
(* The outbound contract: independent sends *)

\* the call c run alone from its start with the provider's answers
RECURSIVE ZvRunAlone(_, _)
ZvRunAlone(c, answers) ==
  IF answers = <<>> \/ c.pc # "send" THEN c
  ELSE ZvRunAlone(ZvTurn(c, Head(answers)), Tail(answers))

C23_StatusOnlyGoesFromErroredToWired ==
  (op \in SendOps) =>
    /\ status = "nil" <=> statusValues = <<>>
    /\ statusValues # <<>> =>
         /\ statusValues[1] = "E"
         /\ \A i \in 2..Len(statusValues) : statusValues[i] = "W"
         /\ status = statusValues[Len(statusValues)]

\* a Zenvia call that wired its first part and failed on the second: the status
\* stays wired
C23_Witness ==
  /\ Done("ZvSendMsg") /\ err = "provider" /\ Len(logs) = 2
  /\ statusValues = <<"E", "W">> /\ status = "W"

----------------------------------------------------------------------------
(* The inbound contract: Slack events and sender URNs *)

SlReceiveOps == {"SlReceiveEvent1", "SlReceiveEvent2"}

\* C25: a Slack event, other than the url_verification handshake, whose event type
\* does not contain "message" or whose bot_id is not empty is acknowledged as ignored
\* with a success response: no Msg is created, nothing is persisted, no event is
\* returned and the Slack API is not called.
C25_SlackNonMessageOrBotIsIgnored ==
  ( /\ pc = "done" /\ op \in SlReceiveOps
    /\ inp.request.valid /\ inp.request.type # "url_verification"
    /\ (~ContainsMessage(inp.request.event.type) \/ inp.request.event.bot_id # "") ) =>
      /\ resp = "ignored" /\ err = "none" /\ ~panicked
      /\ msgs = <<>> /\ written = <<>> /\ events = <<>>
      /\ reqs = <<>> /\ logs = <<>>

\* a direct message with two files that a bot posted
C25_Witness ==
  /\ Done("SlReceiveEvent2")
  /\ inp.request.valid /\ inp.request.event.type = "message" /\ inp.request.event.bot_id = "B1"
  /\ inp.request.event.channel_type = "im" /\ Len(inp.request.event.files) = 2
  /\ resp = "ignored" /\ reqs = <<>> /\ msgs = <<>>

----------------------------------------------------------------------------
(* The inbound contract: content parts of an unknown type, non-inbound directions *)

ZvwRecognized(content) == content.type \in {"text", "location", "file"}

\* C26: a content part of a type Zenvia WhatsApp's receiveMessage does not know does
\* not abort the event: the request is acknowledged with a success response unless the
\* Backend fails, and every part of a known type still gives its Msg, in its place.
C26_ZvwUnknownPartDoesNotAbort ==
  ( /\ ZvwAccepted
    /\ \E i \in 1..Len(inp.request.contents) : ~ZvwRecognized(inp.request.contents[i]) ) =>
      /\ inp.fail_at = 0 => (resp = "ok" /\ err = "none" /\ written = msgs /\ events = msgs)
      /\ resp # "error" /\ ~panicked
      /\ Len(msgs) = Len(inp.request.contents)
      /\ \A i \in 1..Len(msgs) :
           ZvwRecognized(inp.request.contents[i]) =>
             /\ ZvwSharedFields(i)
             /\ msgs[i].text = (IF inp.request.contents[i].type = "text"
                                THEN inp.request.contents[i].text ELSE "")
             /\ inp.request.contents[i].type = "text" => msgs[i].attachments = <<>>
             /\ (inp.request.contents[i].type = "file" /\ inp.request.contents[i].fileUrl # "")
                  => msgs[i].attachments = <<inp.request.contents[i].fileUrl>>
             /\ inp.request.contents[i].type = "location" => Len(msgs[i].attachments) = 1

\* a text, a part of an unknown type and a file, acknowledged with three Msgs
C26_Witness ==
  /\ Done("ZvwReceiveMessage") /\ resp = "ok" /\ Len(msgs) = 3
  /\ inp.request.contents[1].type = "text" /\ inp.request.contents[1].text = "hi"
  /\ inp.request.contents[2].type = "audio"
  /\ inp.request.contents[3].type = "file" /\ inp.request.contents[3].fileUrl = "f1"
  /\ msgs[1].text = "hi" /\ msgs[3].attachments = <<"f1">>

----------------------------------------------------------------------------
(* utils.JoinNonEmpty *)

\* the strings of a list that are not empty, in order
NonEmptyOf(strings) == SelectSeq(strings, LAMBDA str : str # <<>>)

\* strings joined with one delim between every two neighbours
RECURSIVE JoinedWith(_, _)
JoinedWith(delim, strings) ==
  IF strings = <<>> THEN <<>>
  ELSE IF Len(strings) = 1 THEN strings[1]
  ELSE strings[1] \o delim \o JoinedWith(delim, Tail(strings))

\* C28: JoinNonEmpty(delim, s1..sn) is the non-empty strings among s1..sn, in order,
\* with exactly one delim between every two of them and none before the first or
\* after the last; it is the empty string when every si is empty.
C28_JoinNonEmptyJoinsTheNonEmpty ==
  Done("JoinNonEmpty") =>
    /\ joined = JoinedWith(inp.delim, NonEmptyOf(inp.strings))
    /\ (\A i \in 1..Len(inp.strings) : inp.strings[i] = <<>>) => joined = <<>>
    /\ Len(joined) = Len(JoinedWith(<<>>, inp.strings))
                       + Len(inp.delim) * (IF NonEmptyOf(inp.strings) = <<>> THEN 0
                                           ELSE Len(NonEmptyOf(inp.strings)) - 1)

\* an empty string first, then two strings that are joined
C28_Witness ==
  /\ Done("JoinNonEmpty")
  /\ inp.delim = <<",">> /\ inp.strings = << <<>>, <<"a">>, <<"b", "c">> >>
  /\ joined = <<"a", ",", "b", "c">>

----------------------------------------------------------------------------
(* The outbound contract: the order of Zenvia's parts *)

\* C29: Zenvia SendMsg transmits the parts one at a time, in the order of the split:
\* a call starts with nothing transmitted, every step of its loop transmits exactly the
\* next part, so no part is transmitted twice or out of turn, and after a part has
\* failed no step follows, so no later part is transmitted.
C29_ZvPartsInOrderUntilFirstFailure ==
  [][ /\ (pc = "idle" /\ op' = "ZvSendMsg") => (reqs' = <<>> /\ logs' = <<>>)
      /\ (pc = "zvsend") =>
           /\ Len(reqs) < Len(parts)
           /\ reqs' = Append(reqs, [to |-> "zenvia", msg |-> parts[Len(reqs) + 1]])
           /\ Len(logs') = Len(reqs')
           /\ parts' = parts
           /\ \A i \in 1..Len(logs) : ZvExchangeOK(logs[i])
           /\ ~ZvExchangeOK(logs'[Len(logs')]) => pc' = "done"
           /\ (ZvExchangeOK(logs'[Len(logs')]) /\ Len(reqs') < Len(parts)) => pc' = "zvsend"
    ]_vars

\* a message of three parts whose second part failed: the third was not transmitted
C29_Witness ==
  /\ Done("ZvSendMsg") /\ Len(parts) = 3 /\ Len(reqs) = 2
  /\ reqs[1].msg = parts[1] /\ reqs[2].msg = parts[2]
  /\ ZvExchangeOK(logs[1]) /\ ~ZvExchangeOK(logs[2])

\* a structurally valid Zenvia WhatsApp event of type MESSAGE whose direction is not IN
ZvwNotIncoming ==
  /\ Done("ZvwReceiveMessage") /\ inp.request.valid
  /\ ToUpper(inp.request.type) = "MESSAGE" /\ ToUpper(inp.request.direction) # "IN"

\* C30 as claimed: every structurally valid event of type MESSAGE whose direction is
\* not IN ends ignored, with a success acknowledgment, no Msg and nothing persisted,
\* whatever its other fields; it never ends with an error response.
C30_ZvwNotIncomingIsAlwaysIgnored ==
  ZvwNotIncoming =>
    /\ resp = "ignored" /\ err = "none"
    /\ msgs = <<>> /\ written = <<>> /\ events = <<>>

\* C30, amended: such an event ends ignored, with a success acknowledgment, no Msg
\* and nothing persisted, when its timestamp parses, whatever its sender and contents;
\* when its timestamp does not parse it is rejected with the error response for an
\* invalid date format, before its direction is looked at.  No Msg is built and
\* nothing is persisted either way.
C30_ZvwNotIncomingIsIgnoredAfterDateCheck ==
  ZvwNotIncoming =>
    /\ msgs = <<>> /\ written = <<>> /\ events = <<>> /\ ~panicked
    /\ IF ZvwTimeParses(inp.request.timestamp)
       THEN resp = "ignored" /\ err = "none"
       ELSE resp = "error" /\ err = "invalid date format"

\* an outbound event with a sender that is no WhatsApp number is ignored
C30_Witness ==
  /\ ZvwNotIncoming /\ inp.request.direction = "out" /\ inp.request.from = "abc"
  /\ ZvwTimeParses(inp.request.timestamp)
  /\ resp = "ignored" /\ msgs = <<>>

----------------------------------------------------------------------------
(* FreshChat: the URN of a sender and the address of a reply *)

FcIdChars == {Chars(id) : id \in {"", "c", "u", "u/v"}}

\* the string c + "/" + a
FcPathOf(c, a) == c \o <<"/">> \o a

\* the id holds no "/"
NoSlash(id) == \A k \in 1..Len(id) : id[k] # "/"

\* an accepted inbound event gave the path c + "/" + a to its sender
FcInboundPathComposed ==
  (Done("FcReceiveMessage") /\ msgs # <<>>) =>
    msgs[1].urn.path = FcPathOf(Chars(FcPayload(reqBody.after).message.channel_id),
                                Chars(FcPayload(reqBody.after).message.actor_id))

\* C31 as claimed: the sender URN of an inbound event with channel id c and actor id
\* a has the path c + "/" + a, and SendMsg to a URN with that path addresses
\* channel_id = c and user id = a, for all c and all non-empty a.
C31_FcURNRoundTrip ==
  /\ FcInboundPathComposed
  /\ (Done("FcSendMsg") /\ FcCredsOK(inp.cfg)) =>
       \A c \in FcIdChars, a \in FcIdChars \ {<<>>} :
         inp.msg.path = FcPathOf(c, a) =>
           /\ ~panicked /\ Len(reqs) = 1
           /\ reqs[1].channel_id = c /\ reqs[1].user_id = a

\* C31, amended: the same for all c and all non-empty a that hold no "/".
C31_FcURNRoundTripWithoutSlash ==
  /\ FcInboundPathComposed
  /\ (Done("FcSendMsg") /\ FcCredsOK(inp.cfg)) =>
       \A c \in FcIdChars, a \in FcIdChars \ {<<>>} :
         (NoSlash(c) /\ NoSlash(a) /\ inp.msg.path = FcPathOf(c, a)) =>
           /\ ~panicked /\ Len(reqs) = 1
           /\ reqs[1].channel_id = c /\ reqs[1].user_id = a

\* a reply to a sender whose channel id is empty
C31_Witness ==
  /\ Done("FcSendMsg") /\ inp.msg.path = FcPathOf(<<>>, <<"u">>)
  /\ Len(reqs) = 1 /\ reqs[1].channel_id = <<>> /\ reqs[1].user_id = <<"u">>

----------------------------------------------------------------------------
(* The outbound contract: wired means everything was transmitted *)

\* the attachment u was handed to the provider by one of the requests
AttachmentSent(u) ==
  CASE op = "ZvwSendMsg" ->
         \E r \in 1..Len(reqs) : \E k \in 1..Len(reqs[r].contents) :
           reqs[r].contents[k].type = "file" /\ reqs[r].contents[k].fileUrl = u
    [] op = "FcSendMsg" ->
         \E r \in 1..Len(reqs) : \E k \in 1..Len(reqs[r].message_parts) :
           reqs[r].message_parts[k] = [image |-> u]
    [] op \in {"SlSendMsg1", "SlSendMsg2"} ->
         \E r \in 1..Len(reqs) : reqs[r].to = "files.upload" /\ reqs[r].url = u
    [] OTHER -> FALSE

\* the whole text of the message was handed to the provider
TextSent ==
  CASE op = "ZvSendMsg" ->
         CatAll(ZvSentTexts) = GetTextAndAttachments(inp.msg.text, inp.msg.attachments)
    [] op = "ZvwSendMsg" ->
         Len(reqs) = 1 /\ CatAll(ZvwTextsOf(reqs[1].contents)) = inp.msg.text
    [] op = "FcSendMsg" ->
         inp.msg.text # <<>> =>
           \E r \in 1..Len(reqs) : \E k \in 1..Len(reqs[r].message_parts) :
             reqs[r].message_parts[k] = [text |-> inp.msg.text]
    [] op \in {"SlSendMsg1", "SlSendMsg2"} ->
         inp.msg.text # <<>> =>
           \E r \in 1..Len(reqs) : reqs[r].to = "chat.postMessage" /\ reqs[r].text = inp.msg.text
    [] OTHER -> FALSE

\* C32: for every adapter, when SendMsg returns a status of wired the complete content
\* of the message was transmitted: its full text and every one of its attachments are
\* in the provider requests the call issued.  (Zenvia transmits the attachments as
\* part of its text.)
C32_WiredMeansAllContentTransmitted ==
  (pc = "done" /\ op \in SendOps /\ ~panicked /\ status = "W") =>
    /\ TextSent
    /\ op # "ZvSendMsg" =>
         \A j \in 1..Len(inp.msg.attachments) : AttachmentSent(inp.msg.attachments[j])

----------------------------------------------------------------------------
(* The inbound contract: what a Msg holds *)

\* C33: every Msg that Zenvia WhatsApp's receiveMessage hands to the Backend carries
\* content: its text is not empty or it has at least one attachment.
C33_ZvwMsgCarriesContent ==
  (op = "ZvwReceiveMessage") =>
    \A i \in 1..Len(msgs) : msgs[i].text # "" \/ msgs[i].attachments # <<>>

----------------------------------------------------------------------------
(* Slack: the url_verification handshake and the files of a message *)

\* C34: a Slack request of type url_verification is handled before any filtering of
\* messages: when its token equals the channel's verification token the response is
\* the success response with the challenge as its body and no error is returned,
\* otherwise the response is 403 and an error is returned; either way no Msg is
\* created, no event is returned, and the Slack API is not called.
C34_SlackURLVerification ==
  ( /\ pc = "done" /\ op \in SlReceiveOps
    /\ inp.request.valid /\ inp.request.type = "url_verification" ) =>
      /\ msgs = <<>> /\ events = <<>> /\ written = <<>> /\ reqs = <<>> /\ ~panicked
      /\ IF inp.request.token = SlValidationToken
         THEN resp = inp.request.challenge /\ err = "none"
         ELSE resp = "forbidden" /\ err = "wrong validation token"

\* a handshake with the wrong token whose payload also holds a direct message
C34_Witness ==
  /\ Done("SlReceiveEvent2") /\ inp.request.type = "url_verification"
  /\ inp.request.token = "other" /\ inp.request.event.type = "message"
  /\ resp = "forbidden" /\ msgs = <<>>

----------------------------------------------------------------------------
(* FreshChat: the one Msg of an event *)

\* the parts of ps that hold a text, and those that hold an image
FcTextParts(ps) == SelectSeq(ps, LAMBDA part : part.has_text)

FcImageParts(ps) == SelectSeq(ps, LAMBDA part : part.has_image)

\* the event passed the signature check and the decoding, and names a sender that is
\* no agent
FcAcceptedEvent ==
  /\ Done("FcReceiveMessage") /\ ~panicked /\ sigResult = "ok"
  /\ FcDecodes(FcPayload(reqBody.after)) /\ FcPayload(reqBody.after).has_message
  /\ FcPayload(reqBody.after).message.actor_id # ""
  /\ FcPayload(reqBody.after).message.actor_type # "agent"

SlFileFailed ==
  /\ pc = "done" /\ op \in SlReceiveOps /\ ~panicked
  /\ SlRoute(inp.request, inp.user_answer) = "msg"
  /\ \E i \in 1..Len(inp.file_answers) : inp.file_answers[i].kind \notin {"ok", "already_public"}

\* the indexes of the files that resolved, in order
SlResolvedIndexes ==
  SelectSeq([i \in 1..Len(inp.file_answers) |-> i],
            LAMBDA i : inp.file_answers[i].kind \in {"ok", "already_public"})

\* C36: a file of a Slack message event whose public URL cannot be resolved is
\* skipped and the request is not rejected: the Msg is still created, and
\* acknowledged unless the Backend fails, and its attachments are exactly the URLs of
\* the files that resolved, in the order of the files.
C36_SlackFailedFileIsSkipped ==
  SlFileFailed =>
    /\ Len(msgs) = 1
    /\ resp # "error" /\ err \in {"none", "backend"}
    /\ inp.fail_at = 0 => (resp = "ok" /\ written = msgs /\ events = msgs)
    /\ Len(reqs) >= Len(inp.request.event.files)
    /\ Len(msgs[1].attachments) = Len(SlResolvedIndexes)
    /\ \A k \in 1..Len(SlResolvedIndexes) :
         msgs[1].attachments[k] =
           SlFileURL(inp.request.event.files[SlResolvedIndexes[k]],
                     inp.file_answers[SlResolvedIndexes[k]])

\* two files: the first fails in transport, the second resolves
C36_Witness ==
  /\ SlFileFailed /\ Len(inp.request.event.files) = 2
  /\ inp.file_answers[1].kind = "terr" /\ inp.file_answers[2].kind = "ok"
  /\ resp = "ok" /\ Len(msgs) = 1
  /\ msgs[1].attachments = << <<<<"api", "F2">>, "?pub_secret=", "aps">> >>

====
